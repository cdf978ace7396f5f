------------------------- MODULE ResultStoreProofs -------------------------
(* What holds of the results directory for any cases, any suite and any number
   of runs, whatever dies and whatever is rebuilt. *)
EXTENDS ResultStore, TLAPS

Running == {"case", "execute", "write", "manifest"}

\* Beyond the types: the suite and a rebuild exclude each other, directories
\* that are not made yet are empty, a case of the current run has a case.json
\* only when it was executed, and a rebuild looks at cases that began.
StoreInv ==
    /\ TypeOK
    /\ suite.at = "off" \/ tool.at = "off"
    /\ suite.at \in Running => runs \in Runs /\ suite.i \in 1 .. Len(Suite)
    /\ \A r \in Runs, k \in Keys : r > runs => json[r][k] = NoFile
    /\ suite.at \in Running => \A k \in Keys :
           json[runs][k] # NoFile => case[runs][k].at = "executed"
    /\ tool.at = "cases" => \A k \in tool.left : case[tool.run][k] # Absent

LEMMA EvaluatedTyped ==
    ASSUME NEW e \in Evidences
    PROVE  /\ Evaluated(e) \in Statuses
           /\ Evaluated(e) = "PASS" =>
                  e.artifact = "exact" /\ e.process # "timeout"
  BY DEF Evaluated, Evidences, Statuses

LEMMA RecomputedTyped ==
    ASSUME NEW k, NEW c \in Cases, c # Absent
    PROVE  /\ Recomputed(k, c) \subseteq Statuses
           /\ c.at = "executed" /\ "PASS" \in Recomputed(k, c) =>
                  c.left.artifact # "wrong" /\ c.left.process # "timeout"
<1>1. CASE c = Begun
  BY <1>1 DEF Recomputed, Begun, Statuses
<1>2. CASE \E e \in Evidences : c = Executed(e)
  <2>1. PICK e \in Evidences : c = Executed(e)
    BY <1>2
  <2>. QED
    BY <2>1 DEF Recomputed, Executed, Evidences, Statuses
<1>. QED
  BY <1>1, <1>2 DEF Cases

LEMMA ToolTyped ==
    ASSUME TypeOK, tool.at = "cases"
    PROVE  tool.run \in Runs /\ tool.run \in 1 .. runs /\ tool.recompute \in BOOLEAN
             /\ tool.left \subseteq Keys
<1>1. tool \in [at : {"cases"}, run : 1 .. runs, recompute : BOOLEAN,
                left : SUBSET Keys]
  BY DEF TypeOK, NoTool
<1>2. runs \in 0 .. MaxRuns /\ MaxRuns \in Nat
  BY ConstantsAssumption DEF TypeOK
<1>3. tool.run \in 1 .. runs /\ tool.recompute \in BOOLEAN /\ tool.left \subseteq Keys
  BY <1>1
<1>. QED
  BY <1>2, <1>3 DEF Runs

LEMMA KindsOfFiles ==
    ASSUME NEW f \in Files
    PROVE  f.kind \in {"none", "torn", "error", "result"}
<1>1. CASE f \in {NoFile, Torn, ErrorPayload}
  BY <1>1 DEF NoFile, Torn, ErrorPayload
<1>2. CASE \E s \in Statuses, o \in Scores : f = Result(s, o)
  BY <1>2 DEF Result
<1>. QED
  BY <1>1, <1>2 DEF Files

\* What a rebuild may write is a file, and a PASS only where it was computed
\* from what the case left, or already there.
LEMMA RebuiltTyped ==
    ASSUME StoreInv, tool.at = "cases", NEW k \in tool.left,
           NEW f \in RebuiltFiles(tool.run, k)
    PROVE  /\ f \in Files
           /\ f.kind = "result" /\ f # json[tool.run][k] =>
                  f.status \in Recomputed(k, case[tool.run][k])
           /\ Readable(tool.run, k) /\ f # json[tool.run][k] => tool.recompute
<1>. DEFINE r == tool.run
            old == json[r][k]
            kept == IF old.kind = "result" THEN old.scored ELSE "none"
            rebuilt == {Result(s, kept) : s \in Recomputed(k, case[r][k])}
<1>1. /\ r \in Runs /\ k \in Keys
      /\ old \in Files
      /\ case[r][k] \in Cases /\ case[r][k] # Absent
      /\ tool.recompute \in BOOLEAN
  BY ToolTyped DEF StoreInv, TypeOK
<1>2. Recomputed(k, case[r][k]) \subseteq Statuses
  BY <1>1, RecomputedTyped
<1>3. ASSUME NEW g \in rebuilt
      PROVE  g \in Files /\ g.status \in Recomputed(k, case[r][k])
  <2>1. kept \in Scores
    <3>1. CASE old.kind = "result"
      <4>1. old \notin {NoFile, Torn, ErrorPayload}
        BY <3>1 DEF NoFile, Torn, ErrorPayload
      <4>2. PICK s \in Statuses, o \in Scores : old = Result(s, o)
        BY <1>1, <4>1 DEF Files
      <4>3. old.scored = o
        BY <4>2 DEF Result
      <4>. QED
        BY <3>1, <4>2, <4>3
    <3>2. CASE old.kind # "result"
      BY <3>2 DEF Scores
    <3>. QED
      BY <3>1, <3>2
  <2>2. PICK s \in Recomputed(k, case[r][k]) : g = Result(s, kept)
    BY <1>3
  <2>. QED
    BY <1>2, <2>1, <2>2 DEF Files, Result
<1>4. ErrorPayload \in Files /\ ErrorPayload.kind # "result"
  BY DEF Files, ErrorPayload
<1>5. old.kind \in {"none", "torn", "error", "result"}
  BY <1>1, KindsOfFiles
<1>6. CASE old.kind = "none"
  <2>1. f \in rebuilt
    BY <1>6 DEF RebuiltFiles
  <2>. QED
    BY <1>3, <1>6, <2>1 DEF Readable
<1>7. CASE old.kind = "torn"
  <2>1. f = ErrorPayload
    BY <1>7 DEF RebuiltFiles
  <2>. QED
    BY <1>4, <1>7, <2>1 DEF Readable
<1>8. CASE old.kind = "error"
  <2>1. f \in rebuilt \/ f = ErrorPayload
    BY <1>8 DEF RebuiltFiles
  <2>. QED
    BY <1>3, <1>4, <1>8, <2>1 DEF Readable
<1>9. CASE old.kind = "result"
  <2>1. (f \in rebuilt /\ tool.recompute) \/ f = old
    BY <1>9 DEF RebuiltFiles
  <2>. QED
    BY <1>1, <1>3, <2>1
<1>. QED
  BY <1>5, <1>6, <1>7, <1>8, <1>9

-----------------------------------------------------------------------------
(* Type correctness *)

LEMMA InitStore == Init => StoreInv
<1>. SUFFICES ASSUME Init PROVE StoreInv
  OBVIOUS
<1>1. NoFile \in Files /\ Absent \in Cases
  BY DEF Files, Cases
<1>2. TypeOK
  <2>1. runs \in 0 .. MaxRuns
    BY ConstantsAssumption DEF Init
  <2>2. /\ case \in [Runs -> [Keys -> Cases]]
        /\ json \in [Runs -> [Keys -> Files]]
    BY <1>1 DEF Init
  <2>3. /\ target \in [Runs -> SUBSET Keys]
        /\ manifest \in [Runs -> BOOLEAN]
        /\ summary \in [Runs -> BOOLEAN]
    BY DEF Init
  <2>. QED
    BY <2>1, <2>2, <2>3 DEF Init, TypeOK
<1>3. suite.at = "off" /\ tool.at = "off"
  BY DEF Init, Off, NoTool
<1>. QED
  BY <1>2, <1>3 DEF Init, StoreInv, Running

\* The suite while it is at a case or at the end of a run.
LEMMA SuiteTyped ==
    ASSUME TypeOK, suite.at # "off"
    PROVE  suite \in [at : {"entry", "case", "execute", "write", "manifest"},
                      i : 1 .. (Len(Suite) + 1), resume : BOOLEAN]
  BY DEF TypeOK, Off

LEMMA SuiteNext ==
    ASSUME TypeOK, suite.at # "off",
           NEW a \in {"entry", "case", "execute", "write", "manifest"}
    PROVE  /\ [suite EXCEPT !.at = a] \in
                  [at : {"entry", "case", "execute", "write", "manifest"},
                   i : 1 .. (Len(Suite) + 1), resume : BOOLEAN]
           /\ [suite EXCEPT !.at = a].at = a
           /\ [suite EXCEPT !.at = a].i = suite.i
  BY SuiteTyped

\* The case whose case.json is being written left something.
LEMMA LeftTyped ==
    ASSUME StoreInv, suite.at = "write", NEW k \in Keys, json[runs][k] = Torn
    PROVE  /\ case[runs][k].at = "executed"
           /\ case[runs][k].left \in Evidences
<1>1. runs \in Runs /\ case[runs][k] \in Cases
  BY DEF StoreInv, TypeOK, Running
<1>2. Torn # NoFile
  BY DEF Torn, NoFile
<1>3. case[runs][k].at = "executed"
  BY <1>2 DEF StoreInv, Running
<1>4. \E e \in Evidences : case[runs][k] = Executed(e)
  BY <1>1, <1>3 DEF Cases, Absent, Begun
<1>. QED
  BY <1>3, <1>4 DEF Executed

LEMMA SuiteStepTyped ==
    ASSUME StoreInv, StartSuite \/ SuiteStep \/ Crash
    PROVE  TypeOK'
<1>. USE ConstantsAssumption
<1>0. TypeOK /\ runs \in Nat /\ Len(Suite) \in Nat /\ Runs = 1 .. MaxRuns
        /\ \A i \in 1 .. Len(Suite) : Suite[i] \subseteq Keys
  BY DEF StoreInv, TypeOK, Runs
<1>1. CASE StartSuite
  <2>1. UNION {CompletedIn(r) : r \in 1 .. runs} \subseteq Keys
    <3>1. \A r \in 1 .. runs : r \in Runs
      BY <1>0 DEF TypeOK
    <3>2. \A r \in Runs : CompletedIn(r) \subseteq Keys
      BY <1>0 DEF TypeOK, CompletedIn
    <3>. QED
      BY <3>1, <3>2
  <2>2. completed' \subseteq Keys
    BY <1>1, <2>1 DEF StartSuite
  <2>3. suite' \in [at : {"entry", "case", "execute", "write", "manifest"},
                    i : 1 .. (Len(Suite) + 1), resume : BOOLEAN]
    BY <1>0, <1>1 DEF StartSuite
  <2>. QED
    BY <1>0, <1>1, <2>2, <2>3 DEF StartSuite, TypeOK, runVars
<1>2. CASE SkipEntry
  <2>1. suite' \in [at : {"entry", "case", "execute", "write", "manifest"},
                    i : 1 .. (Len(Suite) + 1), resume : BOOLEAN]
    BY <1>0, <1>2, SuiteTyped DEF SkipEntry
  <2>. QED
    BY <1>0, <1>2, <2>1 DEF SkipEntry, TypeOK, runVars
<1>3. CASE StartRun
  <2>1. suite.at # "off" /\ suite.i \in 1 .. Len(Suite)
    BY <1>0, <1>3, SuiteTyped DEF StartRun
  <2>2. Missing(suite.i) \subseteq Keys
    BY <1>0, <2>1 DEF Missing
  <2>3. suite' \in [at : {"entry", "case", "execute", "write", "manifest"},
                    i : 1 .. (Len(Suite) + 1), resume : BOOLEAN]
    BY <1>0, <1>3, <2>1, SuiteNext DEF StartRun
  <2>4. runs' \in 0 .. MaxRuns
    BY <1>0, <1>3 DEF StartRun, TypeOK
  <2>5. tool' = NoTool \/ tool' \in [at : {"cases"}, run : 1 .. runs',
                                   recompute : BOOLEAN, left : SUBSET Keys]
    <3>1. tool.at = "off"
      BY <2>1 DEF StoreInv
    <3>2. tool = NoTool
      BY <1>0, <3>1 DEF TypeOK
    <3>. QED
      BY <1>3, <3>2 DEF StartRun
  <2>6. target' \in [Runs -> SUBSET Keys]
    BY <1>0, <1>3, <2>2 DEF StartRun, TypeOK
  <2>7. todo' \subseteq Keys
    BY <1>3, <2>2 DEF StartRun
  <2>. QED
    BY <1>0, <1>3, <2>3, <2>4, <2>5, <2>6, <2>7 DEF StartRun, TypeOK
<1>4. ASSUME NEW k \in Keys, BeginCase(k)
      PROVE  TypeOK'
  <2>1. suite' \in [at : {"entry", "case", "execute", "write", "manifest"},
                    i : 1 .. (Len(Suite) + 1), resume : BOOLEAN]
    BY <1>0, <1>4, SuiteNext DEF BeginCase
  <2>2. Begun \in Cases
    BY DEF Cases
  <2>3. case' \in [Runs -> [Keys -> Cases]]
    BY <1>0, <1>4, <2>2 DEF BeginCase, TypeOK
  <2>. QED
    BY <1>0, <1>4, <2>1, <2>3 DEF BeginCase, TypeOK
<1>5. ASSUME NEW k \in Keys, ExecuteCase(k)
      PROVE  TypeOK'
  <2>1. suite' \in [at : {"entry", "case", "execute", "write", "manifest"},
                    i : 1 .. (Len(Suite) + 1), resume : BOOLEAN]
    BY <1>0, <1>5, SuiteNext DEF ExecuteCase
  <2>2. \A e \in Evidence[k] : Executed(e) \in Cases
    BY DEF Cases
  <2>3. case' \in [Runs -> [Keys -> Cases]]
    <3>1. PICK e \in Evidence[k] : case' = [case EXCEPT ![runs][k] = Executed(e)]
      BY <1>5 DEF ExecuteCase
    <3>2. case \in [Runs -> [Keys -> Cases]] /\ Executed(e) \in Cases
      BY <1>0, <2>2 DEF TypeOK
    <3>. QED
      BY <3>1, <3>2
  <2>4. Torn \in Files
    BY DEF Files
  <2>5. json' \in [Runs -> [Keys -> Files]]
    BY <1>0, <1>5, <2>4 DEF ExecuteCase, TypeOK
  <2>. QED
    BY <1>0, <1>5, <2>1, <2>3, <2>5 DEF ExecuteCase, TypeOK
<1>6. ASSUME NEW k \in Keys, WriteCase(k)
      PROVE  TypeOK'
  <2>1. suite' \in [at : {"entry", "case", "execute", "write", "manifest"},
                    i : 1 .. (Len(Suite) + 1), resume : BOOLEAN]
    BY <1>0, <1>6, SuiteNext DEF WriteCase
  <2>2. case[runs][k].left \in Evidences
    BY <1>6, LeftTyped DEF WriteCase
  <2>3. Result(Evaluated(case[runs][k].left), Evaluated(case[runs][k].left))
          \in Files
    BY <2>2, EvaluatedTyped DEF Files, Scores
  <2>4. json' \in [Runs -> [Keys -> Files]]
    BY <1>0, <1>6, <2>3 DEF WriteCase, TypeOK
  <2>. QED
    BY <1>0, <1>6, <2>1, <2>4 DEF WriteCase, TypeOK, runVars
<1>7. CASE WriteSummary
  <2>1. suite' \in [at : {"entry", "case", "execute", "write", "manifest"},
                    i : 1 .. (Len(Suite) + 1), resume : BOOLEAN]
    BY <1>0, <1>7, SuiteNext DEF WriteSummary
  <2>. QED
    BY <1>0, <1>7, <2>1 DEF WriteSummary, TypeOK, runVars
<1>8. CASE WriteManifest
  <2>1. suite' \in [at : {"entry", "case", "execute", "write", "manifest"},
                    i : 1 .. (Len(Suite) + 1), resume : BOOLEAN]
    <3>1. suite.i + 1 \in 1 .. (Len(Suite) + 1)
      BY <1>0, <1>8 DEF WriteManifest, StoreInv, Running
    <3>2. suite' = [suite EXCEPT !.at = "entry", !.i = suite.i + 1]
      BY <1>8 DEF WriteManifest
    <3>3. suite \in [at : {"entry", "case", "execute", "write", "manifest"},
                     i : 1 .. (Len(Suite) + 1), resume : BOOLEAN]
      BY <1>0, <1>8, SuiteTyped DEF WriteManifest
    <3>. QED
      BY <3>1, <3>2, <3>3
  <2>2. completed' \subseteq Keys
    <3>1. runs \in Runs
      BY <1>8 DEF WriteManifest, StoreInv, Running
    <3>. QED
      BY <1>0, <1>8, <3>1 DEF WriteManifest, TypeOK
  <2>. QED
    BY <1>0, <1>8, <2>1, <2>2 DEF WriteManifest, TypeOK
<1>9. CASE SuiteDone
  BY <1>0, <1>9 DEF SuiteDone, TypeOK, runVars
<1>10. CASE Crash
  BY <1>0, <1>10 DEF Crash, TypeOK, runVars
<1>. QED
  BY <1>1, <1>2, <1>3, <1>4, <1>5, <1>6, <1>7, <1>8, <1>9, <1>10 DEF SuiteStep

LEMMA RebuildStepTyped ==
    ASSUME StoreInv, \/ StartRebuild \/ RebuildStep \/ RebuildStopped \/ Aggregate
                     \/ \E k \in Keys : RebuildKilled(k)
    PROVE  TypeOK'
<1>0. TypeOK
  BY DEF StoreInv
<1>1. CASE StartRebuild
  <2>1. tool' \in [at : {"cases"}, run : 1 .. runs, recompute : BOOLEAN,
                   left : SUBSET Keys]
    BY <1>1 DEF StartRebuild
  <2>. QED
    BY <1>0, <1>1, <2>1 DEF StartRebuild, TypeOK, runVars
<1>2. ASSUME NEW k \in Keys, RebuildCase(k)
      PROVE  TypeOK'
  <2>1. PICK f \in RebuiltFiles(tool.run, k) :
            json' = [json EXCEPT ![tool.run][k] = f]
    BY <1>2 DEF RebuildCase
  <2>2. f \in Files
    BY <1>2, <2>1, RebuiltTyped DEF RebuildCase
  <2>3. json' \in [Runs -> [Keys -> Files]]
    BY <1>0, <2>1, <2>2 DEF TypeOK
  <2>4. tool \in [at : {"cases"}, run : 1 .. runs, recompute : BOOLEAN,
                  left : SUBSET Keys]
    BY <1>0, <1>2 DEF RebuildCase, TypeOK, NoTool
  <2>5. tool' \in [at : {"cases"}, run : 1 .. runs, recompute : BOOLEAN,
                   left : SUBSET Keys]
    BY <1>2, <2>4 DEF RebuildCase
  <2>. QED
    BY <1>0, <1>2, <2>3, <2>5 DEF RebuildCase, TypeOK, runVars
<1>3. ASSUME NEW k \in Keys, RebuildKilled(k)
      PROVE  TypeOK'
  <2>1. Torn \in Files
    BY DEF Files
  <2>2. json' \in [Runs -> [Keys -> Files]]
    BY <1>0, <1>3, <2>1 DEF RebuildKilled, TypeOK
  <2>. QED
    BY <1>0, <1>3, <2>2 DEF RebuildKilled, TypeOK, runVars
<1>4. CASE RebuildStopped
  BY <1>0, <1>4 DEF RebuildStopped, TypeOK, runVars
<1>5. CASE RebuildSummary
  <2>1. summary' \in [Runs -> BOOLEAN]
    BY <1>0, <1>5 DEF RebuildSummary, TypeOK
  <2>. QED
    BY <1>0, <1>5, <2>1 DEF RebuildSummary, TypeOK, runVars
<1>6. CASE Aggregate
  <2>1. published' \in BOOLEAN
    BY <1>6 DEF Aggregate
  <2>. QED
    BY <1>0, <1>6, <2>1 DEF Aggregate, TypeOK, runVars
<1>. QED
  BY <1>1, <1>2, <1>3, <1>4, <1>5, <1>6 DEF RebuildStep

-----------------------------------------------------------------------------
(* The invariant *)

\* The parts of StoreInv, as predicates of a state.
Exclusive == suite.at = "off" \/ tool.at = "off"
AtRun == suite.at \in Running => runs \in Runs /\ suite.i \in 1 .. Len(Suite)
Unmade == \A r \in Runs, k \in Keys : r > runs => json[r][k] = NoFile
Written == suite.at \in Running => \A k \in Keys :
               json[runs][k] # NoFile => case[runs][k].at = "executed"
Rebuildable == tool.at = "cases" =>
                   \A k \in tool.left : case[tool.run][k] # Absent

LEMMA Parts == StoreInv <=> /\ TypeOK /\ Exclusive /\ AtRun /\ Unmade /\ Written
                            /\ Rebuildable
  BY DEF StoreInv, Exclusive, AtRun, Unmade, Written, Rebuildable

\* While the suite is at a run no rebuild is under way.
LEMMA NoToolMeanwhile ==
    ASSUME StoreInv, suite.at # "off"
    PROVE  tool.at = "off"
  BY DEF StoreInv

LEMMA SuiteStepInv ==
    ASSUME StoreInv, StartSuite \/ SuiteStep \/ Crash
    PROVE  /\ Exclusive' /\ AtRun' /\ Unmade' /\ Written' /\ Rebuildable'
<1>. USE ConstantsAssumption
<1>0. /\ TypeOK /\ runs \in Nat /\ Len(Suite) \in Nat /\ Runs = 1 .. MaxRuns
      /\ MaxRuns \in Nat
      /\ case \in [Runs -> [Keys -> Cases]] /\ json \in [Runs -> [Keys -> Files]]
      /\ Exclusive /\ AtRun /\ Unmade /\ Written /\ Rebuildable
  BY Parts DEF TypeOK, Runs
<1>1. CASE StartSuite
  BY <1>0, <1>1 DEF StartSuite, Exclusive, AtRun, Unmade, Written, Rebuildable,
                    Running, runVars
<1>2. CASE SkipEntry
  <2>1. tool.at = "off" /\ suite'.at = "entry"
    BY <1>0, <1>2, NoToolMeanwhile, SuiteTyped DEF SkipEntry
  <2>. QED
    BY <1>0, <1>2, <2>1 DEF SkipEntry, Exclusive, AtRun, Unmade, Written,
                            Rebuildable, Running, runVars
<1>3. CASE StartRun
  <2>1. tool.at = "off" /\ suite.at # "off"
    BY <1>0, <1>3, NoToolMeanwhile DEF StartRun
  <2>2. /\ suite'.at = "case" /\ suite'.i = suite.i /\ suite.i \in 1 .. Len(Suite)
    BY <1>0, <1>3, <2>1, SuiteNext, SuiteTyped DEF StartRun
  <2>3. runs' = runs + 1 /\ runs' \in Runs /\ json' = json /\ case' = case
          /\ tool' = tool
    BY <1>0, <1>3 DEF StartRun
  <2>4. Unmade'
    BY <1>0, <2>3 DEF Unmade
  <2>5. \A k \in Keys : json[runs + 1][k] = NoFile
    BY <1>0, <2>3 DEF Unmade
  <2>6. Written'
    BY <2>3, <2>5 DEF Written
  <2>. QED
    BY <2>1, <2>2, <2>3, <2>4, <2>6 DEF Exclusive, AtRun, Rebuildable
<1>4. ASSUME NEW k \in Keys, BeginCase(k)
      PROVE  Exclusive' /\ AtRun' /\ Unmade' /\ Written' /\ Rebuildable'
  <2>1. tool.at = "off" /\ suite.at # "off" /\ runs \in Runs
    BY <1>0, <1>4, NoToolMeanwhile DEF BeginCase, AtRun, Running
  <2>2. /\ suite'.at = "execute" /\ suite'.i = suite.i
    BY <1>0, <1>4, <2>1, SuiteNext DEF BeginCase
  <2>3. /\ UNCHANGED <<runs, json, tool>>
        /\ case[runs][k] = Absent
        /\ case' = [case EXCEPT ![runs][k] = Begun]
    BY <1>4 DEF BeginCase
  <2>4. json[runs][k] = NoFile
    BY <1>0, <1>4, <2>3 DEF BeginCase, Written, Running, Absent
  <2>5. Written'
    BY <1>0, <1>4, <2>1, <2>3, <2>4 DEF BeginCase, Written, Running
  <2>. QED
    BY <1>0, <1>4, <2>1, <2>2, <2>3, <2>5
       DEF BeginCase, Exclusive, AtRun, Unmade, Rebuildable, Running
<1>5. ASSUME NEW k \in Keys, ExecuteCase(k)
      PROVE  Exclusive' /\ AtRun' /\ Unmade' /\ Written' /\ Rebuildable'
  <2>1. tool.at = "off" /\ suite.at # "off" /\ runs \in Runs
    BY <1>0, <1>5, NoToolMeanwhile DEF ExecuteCase, AtRun, Running
  <2>2. /\ suite'.at = "write" /\ suite'.i = suite.i
    BY <1>0, <1>5, <2>1, SuiteNext DEF ExecuteCase
  <2>3. /\ UNCHANGED <<runs, tool>>
        /\ json' = [json EXCEPT ![runs][k] = Torn]
    BY <1>5 DEF ExecuteCase
  <2>4. PICK e \in Evidence[k] : case' = [case EXCEPT ![runs][k] = Executed(e)]
    BY <1>5 DEF ExecuteCase
  <2>5. case'[runs][k].at = "executed"
    BY <1>0, <2>1, <2>4 DEF Executed
  <2>6. \A j \in Keys : j # k =>
            case'[runs][j] = case[runs][j] /\ json'[runs][j] = json[runs][j]
    BY <1>0, <2>1, <2>3, <2>4
  <2>7. Written'
    BY <1>0, <1>5, <2>3, <2>5, <2>6 DEF ExecuteCase, Written, Running
  <2>8. Unmade'
    BY <1>0, <2>1, <2>3 DEF Unmade
  <2>. QED
    BY <1>0, <1>5, <2>1, <2>2, <2>3, <2>7, <2>8
       DEF ExecuteCase, Exclusive, AtRun, Rebuildable, Running
<1>6. ASSUME NEW k \in Keys, WriteCase(k)
      PROVE  Exclusive' /\ AtRun' /\ Unmade' /\ Written' /\ Rebuildable'
  <2>1. tool.at = "off" /\ suite.at # "off" /\ runs \in Runs
    BY <1>0, <1>6, NoToolMeanwhile DEF WriteCase, AtRun, Running
  <2>2. /\ suite'.at = "case" /\ suite'.i = suite.i
    BY <1>0, <1>6, <2>1, SuiteNext DEF WriteCase
  <2>3. /\ UNCHANGED <<runs, case, tool>>
        /\ json' = [json EXCEPT ![runs][k] =
                        Result(Evaluated(case[runs][k].left),
                               Evaluated(case[runs][k].left))]
    BY <1>6 DEF WriteCase, runVars
  <2>4. case[runs][k].at = "executed"
    BY <1>6, LeftTyped DEF WriteCase
  <2>5. \A j \in Keys : j # k => json'[runs][j] = json[runs][j]
    BY <1>0, <2>1, <2>3
  <2>6. Written'
    BY <1>0, <1>6, <2>3, <2>4, <2>5 DEF WriteCase, Written, Running
  <2>7. Unmade'
    BY <1>0, <2>1, <2>3 DEF Unmade
  <2>. QED
    BY <1>0, <1>6, <2>1, <2>2, <2>3, <2>6, <2>7
       DEF WriteCase, Exclusive, AtRun, Rebuildable, Running
<1>7. CASE WriteSummary
  <2>1. tool.at = "off" /\ suite'.at = "manifest" /\ suite'.i = suite.i
    BY <1>0, <1>7, NoToolMeanwhile, SuiteNext DEF WriteSummary
  <2>. QED
    BY <1>0, <1>7, <2>1 DEF WriteSummary, Exclusive, AtRun, Unmade, Written,
                            Rebuildable, Running, runVars
<1>8. CASE WriteManifest
  <2>1. tool.at = "off" /\ suite'.at = "entry"
    BY <1>0, <1>8, NoToolMeanwhile, SuiteTyped DEF WriteManifest
  <2>. QED
    BY <1>0, <1>8, <2>1 DEF WriteManifest, Exclusive, AtRun, Unmade, Written,
                            Rebuildable, Running
<1>9. CASE SuiteDone
  BY <1>0, <1>9 DEF SuiteDone, Off, Exclusive, AtRun, Unmade, Written,
                    Rebuildable, Running, runVars
<1>10. CASE Crash
  BY <1>0, <1>10 DEF Crash, Off, Exclusive, AtRun, Unmade, Written, Rebuildable,
                     Running, runVars
<1>. QED
  BY <1>1, <1>2, <1>3, <1>4, <1>5, <1>6, <1>7, <1>8, <1>9, <1>10 DEF SuiteStep

LEMMA RebuildStepInv ==
    ASSUME StoreInv, \/ StartRebuild \/ RebuildStep \/ RebuildStopped \/ Aggregate
                     \/ \E k \in Keys : RebuildKilled(k)
    PROVE  /\ Exclusive' /\ AtRun' /\ Unmade' /\ Written' /\ Rebuildable'
<1>0. /\ TypeOK /\ runs \in 0 .. MaxRuns /\ MaxRuns \in Nat
      /\ json \in [Runs -> [Keys -> Files]]
      /\ Exclusive /\ AtRun /\ Unmade /\ Written /\ Rebuildable
  BY Parts, ConstantsAssumption DEF TypeOK
<1>1. CASE StartRebuild
  <2>1. PICK r \in 1 .. runs, recompute \in BOOLEAN :
            tool' = [at |-> "cases", run |-> r, recompute |-> recompute,
                     left |-> {k \in Keys : case[r][k] # Absent}]
    BY <1>1 DEF StartRebuild
  <2>2. Rebuildable'
    BY <1>1, <2>1 DEF StartRebuild, runVars, Rebuildable
  <2>. QED
    BY <1>0, <1>1, <2>2 DEF StartRebuild, runVars, Exclusive, AtRun, Unmade,
                            Written, Running
<1>2. ASSUME NEW k \in Keys, NEW f,
             tool.at = "cases", k \in tool.left,
             json' = [json EXCEPT ![tool.run][k] = f],
             UNCHANGED <<runs, case, suite>>,
             \/ tool' = NoTool
             \/ tool'.run = tool.run /\ tool'.left = tool.left \ {k}
      PROVE  Exclusive' /\ AtRun' /\ Unmade' /\ Written' /\ Rebuildable'
  <2>1. suite.at = "off"
    BY <1>0, <1>2 DEF Exclusive
  <2>2. tool.run \in 1 .. runs /\ tool.run \in Runs
    BY <1>0, <1>2, ToolTyped
  <2>3. Unmade'
    <3>1. SUFFICES ASSUME NEW r \in Runs, NEW j \in Keys, r > runs
                   PROVE  json'[r][j] = NoFile
      BY <1>2 DEF Unmade
    <3>2. r # tool.run
      BY <1>0, <2>2, <3>1 DEF Runs
    <3>3. json'[r] = json[r]
      BY <1>0, <1>2, <3>1, <3>2
    <3>. QED
      BY <1>0, <3>1, <3>3 DEF Unmade
  <2>4. Rebuildable'
    BY <1>0, <1>2 DEF Rebuildable, NoTool
  <2>. QED
    BY <1>2, <2>1, <2>3, <2>4 DEF Exclusive, AtRun, Written, Running
<1>3. ASSUME NEW k \in Keys, RebuildCase(k)
      PROVE  Exclusive' /\ AtRun' /\ Unmade' /\ Written' /\ Rebuildable'
  <2>1. PICK f \in RebuiltFiles(tool.run, k) :
            json' = [json EXCEPT ![tool.run][k] = f]
    BY <1>3 DEF RebuildCase
  <2>2. tool \in [at : {"cases"}, run : 1 .. runs, recompute : BOOLEAN,
                  left : SUBSET Keys]
    BY <1>0, <1>3 DEF RebuildCase, TypeOK, NoTool
  <2>3. tool'.run = tool.run /\ tool'.left = tool.left \ {k}
    BY <1>3, <2>2 DEF RebuildCase
  <2>. QED
    BY <1>2, <1>3, <2>1, <2>3 DEF RebuildCase, runVars
<1>4. ASSUME NEW k \in Keys, RebuildKilled(k)
      PROVE  Exclusive' /\ AtRun' /\ Unmade' /\ Written' /\ Rebuildable'
  BY <1>2, <1>4 DEF RebuildKilled, runVars
<1>5. CASE RebuildStopped \/ RebuildSummary
  BY <1>0, <1>5 DEF RebuildStopped, RebuildSummary, NoTool, runVars, Exclusive,
                    AtRun, Unmade, Written, Rebuildable, Running
<1>6. CASE Aggregate
  BY <1>0, <1>6 DEF Aggregate, runVars, Exclusive, AtRun, Unmade, Written,
                    Rebuildable, Running
<1>. QED
  BY <1>1, <1>3, <1>4, <1>5, <1>6 DEF RebuildStep

LEMMA PartsNext ==
    (TypeOK /\ Exclusive /\ AtRun /\ Unmade /\ Written /\ Rebuildable)' => StoreInv'
  BY DEF StoreInv, Exclusive, AtRun, Unmade, Written, Rebuildable

LEMMA StutterInv ==
    ASSUME StoreInv, UNCHANGED vars
    PROVE  StoreInv'
<1>1. /\ UNCHANGED runVars
      /\ UNCHANGED <<json, summary, suite, todo, completed, tool, published>>
  BY DEF vars
<1>2. TypeOK'
  BY <1>1 DEF StoreInv, TypeOK, runVars
<1>3. (Exclusive /\ AtRun /\ Unmade /\ Written /\ Rebuildable)'
  BY <1>1, Parts DEF Exclusive, AtRun, Unmade, Written, Rebuildable, runVars
<1>. QED
  BY <1>2, <1>3, PartsNext

LEMMA NextInv == StoreInv /\ [Next]_vars => StoreInv'
<1>. SUFFICES ASSUME StoreInv, [Next]_vars PROVE StoreInv'
  OBVIOUS
<1>1. CASE StartSuite \/ SuiteStep \/ Crash
  BY <1>1, SuiteStepTyped, SuiteStepInv, PartsNext
<1>2. CASE \/ StartRebuild \/ RebuildStep \/ RebuildStopped \/ Aggregate
           \/ \E k \in Keys : RebuildKilled(k)
  BY <1>2, RebuildStepTyped, RebuildStepInv, PartsNext
<1>3. CASE UNCHANGED vars
  BY <1>3, StutterInv
<1>. QED
  BY <1>1, <1>2, <1>3 DEF Next, Interruption

\* In every reachable state: the suite and a rebuild exclude each other, and a
\* case.json in the directory of the current run is one of an executed case.
THEOREM StoreInvariant == Spec => []StoreInv
<1>. QED
  BY InitStore, NextInv, PTL DEF Spec

\* The results directory, the suite and the tools are always well typed.
THEOREM StoreTypeCorrect == Spec => []TypeOK
<1>1. StoreInv => TypeOK
  BY DEF StoreInv
<1>. QED
  BY <1>1, StoreInvariant, PTL

-----------------------------------------------------------------------------
(* What may pass, and what is kept *)

Deserved(r, k) ==
    case[r][k].at = "executed" /\ Status(json[r][k]) = "PASS" =>
        /\ case[r][k].left.artifact # "wrong"
        /\ case[r][k].left.process # "timeout"

LEMMA PassMeans == PassNeedsArtifact <=> \A r \in Runs, k \in Keys : Deserved(r, k)
  BY DEF PassNeedsArtifact, Deserved

\* Where neither the case nor its case.json changes, nothing passes anew.
LEMMA DeservedStays ==
    ASSUME NEW r \in Runs, NEW k \in Keys, Deserved(r, k),
           case'[r][k] = case[r][k], json'[r][k] = json[r][k]
    PROVE  Deserved(r, k)'
  BY DEF Deserved, Status

LEMMA InitPass == Init => PassNeedsArtifact
<1>. SUFFICES ASSUME Init, NEW r \in Runs, NEW k \in Keys
              PROVE  case[r][k].at # "executed"
  BY DEF PassNeedsArtifact
<1>1. case[r][k] = Absent
  BY DEF Init
<1>. QED
  BY <1>1 DEF Absent

\* A step that changes the case.json of one case, to what it deserves.
LEMMA OneFile ==
    ASSUME StoreInv, PassNeedsArtifact, NEW r \in Runs, NEW k \in Keys, NEW f,
           json' = [json EXCEPT ![r][k] = f], UNCHANGED case,
           case[r][k].at = "executed" /\ Status(f) = "PASS" =>
               /\ case[r][k].left.artifact # "wrong"
               /\ case[r][k].left.process # "timeout"
    PROVE  PassNeedsArtifact'
<1>0. json \in [Runs -> [Keys -> Files]]
  BY DEF StoreInv, TypeOK
<1>1. ASSUME NEW q \in Runs, NEW j \in Keys
      PROVE  Deserved(q, j)'
  <2>1. CASE q = r /\ j = k
    <3>1. json'[q][j] = f /\ case' = case
      BY <1>0, <2>1
    <3>. QED
      BY <2>1, <3>1 DEF Deserved, Status
  <2>2. CASE ~(q = r /\ j = k)
    <3>1. json'[q][j] = json[q][j] /\ case'[q][j] = case[q][j]
      BY <1>0, <2>2
    <3>. QED
      BY <3>1, DeservedStays, PassMeans
  <2>. QED
    BY <2>1, <2>2
<1>. QED
  BY <1>1 DEF PassNeedsArtifact, Deserved

LEMMA NextPass == StoreInv /\ PassNeedsArtifact /\ [Next]_vars => PassNeedsArtifact'
<1>. SUFFICES ASSUME StoreInv, PassNeedsArtifact, [Next]_vars
              PROVE  PassNeedsArtifact'
  OBVIOUS
<1>0. /\ TypeOK
      /\ case \in [Runs -> [Keys -> Cases]] /\ json \in [Runs -> [Keys -> Files]]
  BY DEF StoreInv, TypeOK
<1>1. CASE UNCHANGED <<case, json>>
  BY <1>1 DEF PassNeedsArtifact, Status
<1>2. ASSUME NEW k \in Keys, BeginCase(k)
      PROVE  PassNeedsArtifact'
  <2>1. /\ runs \in Runs /\ json' = json
        /\ case' = [case EXCEPT ![runs][k] = Begun]
    BY <1>2 DEF BeginCase, StoreInv, Running
  <2>2. ASSUME NEW q \in Runs, NEW j \in Keys
        PROVE  Deserved(q, j)'
    <3>1. CASE q = runs /\ j = k
      <4>1. case'[q][j] = Begun
        BY <1>0, <2>1, <3>1
      <4>. QED
        BY <4>1 DEF Deserved, Begun
    <3>2. CASE ~(q = runs /\ j = k)
      <4>1. case'[q][j] = case[q][j] /\ json'[q][j] = json[q][j]
        BY <1>0, <2>1, <3>2
      <4>. QED
        BY <4>1, DeservedStays, PassMeans
    <3>. QED
      BY <3>1, <3>2
  <2>. QED
    BY <2>2 DEF PassNeedsArtifact, Deserved
<1>3. ASSUME NEW k \in Keys, ExecuteCase(k)
      PROVE  PassNeedsArtifact'
  <2>1. /\ runs \in Runs /\ json' = [json EXCEPT ![runs][k] = Torn]
    BY <1>3 DEF ExecuteCase, StoreInv, Running
  <2>2. PICK e \in Evidence[k] : case' = [case EXCEPT ![runs][k] = Executed(e)]
    BY <1>3 DEF ExecuteCase
  <2>3. ASSUME NEW q \in Runs, NEW j \in Keys
        PROVE  Deserved(q, j)'
    <3>1. CASE q = runs /\ j = k
      <4>1. json'[q][j] = Torn
        BY <1>0, <2>1, <3>1
      <4>. QED
        BY <4>1 DEF Deserved, Status, Torn
    <3>2. CASE ~(q = runs /\ j = k)
      <4>1. case'[q][j] = case[q][j] /\ json'[q][j] = json[q][j]
        BY <1>0, <2>1, <2>2, <3>2
      <4>. QED
        BY <4>1, DeservedStays, PassMeans
    <3>. QED
      BY <3>1, <3>2
  <2>. QED
    BY <2>3 DEF PassNeedsArtifact, Deserved
<1>4. ASSUME NEW k \in Keys, WriteCase(k)
      PROVE  PassNeedsArtifact'
  <2>. DEFINE e == case[runs][k].left
  <2>1. /\ runs \in Runs /\ case' = case /\ e \in Evidences
        /\ json' = [json EXCEPT ![runs][k] = Result(Evaluated(e), Evaluated(e))]
    BY <1>4, LeftTyped DEF WriteCase, StoreInv, Running, runVars
  <2>2. Status(Result(Evaluated(e), Evaluated(e))) = Evaluated(e)
    BY DEF Status, Result
  <2>3. Evaluated(e) = "PASS" => e.artifact # "wrong" /\ e.process # "timeout"
    BY <2>1, EvaluatedTyped
  <2>. QED
    BY <2>1, <2>2, <2>3, OneFile
<1>5. ASSUME NEW k \in Keys, RebuildCase(k)
      PROVE  PassNeedsArtifact'
  <2>. DEFINE r == tool.run
  <2>1. PICK f \in RebuiltFiles(r, k) : json' = [json EXCEPT ![r][k] = f]
    BY <1>5 DEF RebuildCase
  <2>2. r \in Runs /\ case' = case /\ tool.at = "cases" /\ k \in tool.left
    BY <1>0, <1>5, ToolTyped DEF RebuildCase, runVars
  <2>3. case[r][k] \in Cases /\ case[r][k] # Absent
    BY <1>0, <2>2 DEF StoreInv
  <2>4. CASE f = json[r][k]
    BY <2>1, <2>2, <2>4, OneFile, PassMeans DEF Deserved
  <2>5. CASE f # json[r][k]
    <3>1. f.kind = "result" => f.status \in Recomputed(k, case[r][k])
      BY <2>1, <2>2, <2>5, RebuiltTyped
    <3>2. Status(f) = "PASS" => "PASS" \in Recomputed(k, case[r][k])
      BY <3>1 DEF Status
    <3>3. case[r][k].at = "executed" /\ Status(f) = "PASS" =>
              /\ case[r][k].left.artifact # "wrong"
              /\ case[r][k].left.process # "timeout"
      BY <2>3, <3>2, RecomputedTyped
    <3>. QED
      BY <2>1, <2>2, <3>3, OneFile
  <2>. QED
    BY <2>4, <2>5
<1>6. ASSUME NEW k \in Keys, RebuildKilled(k)
      PROVE  PassNeedsArtifact'
  <2>1. /\ tool.run \in Runs /\ case' = case
        /\ json' = [json EXCEPT ![tool.run][k] = Torn]
    BY <1>0, <1>6, ToolTyped DEF RebuildKilled, runVars
  <2>2. Status(Torn) # "PASS"
    BY DEF Status, Torn
  <2>. QED
    BY <2>1, <2>2, OneFile
<1>7. CASE \/ StartSuite \/ SkipEntry \/ StartRun \/ WriteSummary \/ WriteManifest
           \/ SuiteDone \/ Crash \/ StartRebuild \/ RebuildStopped
           \/ RebuildSummary \/ Aggregate
  BY <1>1, <1>7 DEF StartSuite, SkipEntry, StartRun, WriteSummary, WriteManifest,
     SuiteDone, Crash, StartRebuild, RebuildStopped, RebuildSummary, Aggregate,
     runVars
<1>8. CASE UNCHANGED vars
  BY <1>1, <1>8 DEF vars, runVars
<1>. QED
  BY <1>2, <1>3, <1>4, <1>5, <1>6, <1>7, <1>8
     DEF Next, SuiteStep, RebuildStep, Interruption

\* For any evidence, any suite and any number of runs, crashes and rebuilds: an
\* executed case that has a PASS left the right artifact, in time.
THEOREM PassesAreDeserved == Spec => []PassNeedsArtifact
<1>1. Init => PassNeedsArtifact
  BY InitPass
<1>2. StoreInv /\ PassNeedsArtifact /\ [Next]_vars => PassNeedsArtifact'
  BY NextPass
<1>. QED
  BY <1>1, <1>2, StoreInvariant, PTL DEF Spec

\* A step that is no rebuild with recomputation changes no readable case.json.
Kept == \A r \in Runs, k \in Keys :
            Readable(r, k) /\ json'[r][k] # json[r][k]
                => tool.at = "cases" /\ tool.run = r /\ tool.recompute

LEMMA NextKept == StoreInv /\ [Next]_vars => Kept
<1>. SUFFICES ASSUME StoreInv, [Next]_vars,
                     NEW r \in Runs, NEW k \in Keys,
                     Readable(r, k), json'[r][k] # json[r][k]
              PROVE  tool.at = "cases" /\ tool.run = r /\ tool.recompute
  BY DEF Kept
<1>0. TypeOK /\ json \in [Runs -> [Keys -> Files]] /\ json' # json
  BY DEF StoreInv, TypeOK
<1>1. ASSUME NEW q \in Runs, NEW j \in Keys, NEW f,
             json' = [json EXCEPT ![q][j] = f]
      PROVE  q = r /\ j = k /\ f # json[r][k]
  BY <1>0, <1>1
<1>2. ASSUME NEW j \in Keys, ExecuteCase(j)
      PROVE  FALSE
  <2>1. runs = r /\ j = k
    BY <1>1, <1>2 DEF ExecuteCase, StoreInv, Running
  <2>2. case[r][k] = Begun
    BY <1>2, <2>1 DEF ExecuteCase
  <2>3. json[r][k] = NoFile
    BY <1>2, <2>1, <2>2 DEF ExecuteCase, StoreInv, Running, Begun
  <2>. QED
    BY <2>3 DEF Readable, NoFile
<1>3. ASSUME NEW j \in Keys, WriteCase(j)
      PROVE  FALSE
  <2>1. runs = r /\ j = k
    BY <1>1, <1>3 DEF WriteCase, StoreInv, Running
  <2>. QED
    BY <1>3, <2>1 DEF WriteCase, Readable, Torn
<1>4. ASSUME NEW j \in Keys, RebuildCase(j)
      PROVE  tool.at = "cases" /\ tool.run = r /\ tool.recompute
  <2>1. PICK f \in RebuiltFiles(tool.run, j) :
            json' = [json EXCEPT ![tool.run][j] = f]
    BY <1>4 DEF RebuildCase
  <2>2. tool.run = r /\ j = k /\ f # json[r][k]
    BY <1>0, <1>1, <1>4, <2>1, ToolTyped DEF RebuildCase
  <2>. QED
    BY <1>4, <2>1, <2>2, RebuiltTyped DEF RebuildCase
<1>5. ASSUME NEW j \in Keys, RebuildKilled(j)
      PROVE  tool.at = "cases" /\ tool.run = r /\ tool.recompute
  <2>1. tool.run = r /\ j = k
    BY <1>0, <1>1, <1>5, ToolTyped DEF RebuildKilled
  <2>2. tool.at = "cases" /\ (tool.recompute \/ ~Readable(r, k))
    BY <1>5, <2>1 DEF RebuildKilled, Rewrites
  <2>. QED
    BY <2>1, <2>2
<1>6. CASE \/ StartSuite \/ SkipEntry \/ StartRun \/ WriteSummary \/ WriteManifest
           \/ SuiteDone \/ Crash \/ StartRebuild \/ RebuildStopped
           \/ RebuildSummary \/ Aggregate
           \/ \E j \in Keys : BeginCase(j)
  BY <1>0, <1>6 DEF StartSuite, SkipEntry, StartRun, BeginCase, WriteSummary,
     WriteManifest, SuiteDone, Crash, StartRebuild, RebuildStopped, RebuildSummary,
     Aggregate, runVars
<1>7. CASE UNCHANGED vars
  BY <1>0, <1>7 DEF vars
<1>. QED
  BY <1>2, <1>3, <1>4, <1>5, <1>6, <1>7
     DEF Next, SuiteStep, RebuildStep, Interruption

\* For any number of runs, suites, crashes and rebuilds: a result on disk changes
\* only where a rebuild was asked to recompute it.
THEOREM ResultsStand == Spec => ResultsAreKept
<1>1. StoreInv /\ [Next]_vars => [Kept]_vars
  BY NextKept
<1>2. [][Kept]_vars => ResultsAreKept
  BY DEF ResultsAreKept, Kept
<1>. QED
  BY <1>1, <1>2, StoreInvariant, PTL DEF Spec

-----------------------------------------------------------------------------
(* What a step may change in the directory *)

\* A rebuild leaves a file, and adds no scores to it.
LEMMA RebuiltKeepsScores ==
    ASSUME StoreInv, tool.at = "cases", NEW k \in tool.left,
           NEW f \in RebuiltFiles(tool.run, k)
    PROVE  /\ f # NoFile
           /\ f.kind = "result" => \/ f.scored = "none"
                                   \/ /\ json[tool.run][k].kind = "result"
                                      /\ f.scored = json[tool.run][k].scored
<1>. DEFINE r == tool.run
            old == json[r][k]
            kept == IF old.kind = "result" THEN old.scored ELSE "none"
            rebuilt == {Result(s, kept) : s \in Recomputed(k, case[r][k])}
<1>1. r \in Runs /\ k \in Keys /\ old \in Files
  BY ToolTyped DEF StoreInv, TypeOK
<1>2. old.kind \in {"none", "torn", "error", "result"}
  BY <1>1, KindsOfFiles
<1>3. f \in rebuilt \/ f = ErrorPayload \/ (f = old /\ old.kind = "result")
  BY <1>2 DEF RebuiltFiles
<1>4. CASE f \in rebuilt
  <2>1. PICK s \in Recomputed(k, case[r][k]) : f = Result(s, kept)
    BY <1>4
  <2>2. f.kind = "result" /\ f.scored = kept
    BY <2>1 DEF Result
  <2>. QED
    BY <2>2 DEF NoFile
<1>5. CASE f = ErrorPayload
  BY <1>5 DEF ErrorPayload, NoFile
<1>6. CASE f = old /\ old.kind = "result"
  BY <1>6 DEF NoFile
<1>. QED
  BY <1>3, <1>4, <1>5, <1>6

\* A case directory changes only in the current run: a case of it begins that
\* was still to do, or one that had begun ends, with its case.json truncated.
LEMMA CaseChanges ==
    ASSUME StoreInv, [Next]_vars, NEW r \in Runs, NEW k \in Keys,
           case'[r][k] # case[r][k]
    PROVE  /\ r = runs
           /\ \/ /\ suite.at = "case" /\ k \in todo
                 /\ case'[r][k] = Begun /\ json' = json
              \/ /\ suite.at = "execute" /\ case[r][k] = Begun
                 /\ case'[r][k].at = "executed" /\ json'[r][k] = Torn
<1>0. /\ case \in [Runs -> [Keys -> Cases]] /\ json \in [Runs -> [Keys -> Files]]
      /\ case' # case
  BY DEF StoreInv, TypeOK
<1>1. ASSUME NEW j \in Keys, BeginCase(j)
      PROVE  /\ r = runs /\ suite.at = "case" /\ k \in todo
             /\ case'[r][k] = Begun /\ json' = json
  <2>1. case' = [case EXCEPT ![runs][j] = Begun] /\ runs \in Runs
    BY <1>1 DEF BeginCase, StoreInv, Running
  <2>2. r = runs /\ k = j /\ case'[r][k] = Begun
    BY <1>0, <2>1
  <2>. QED
    BY <1>1, <2>2 DEF BeginCase
<1>2. ASSUME NEW j \in Keys, ExecuteCase(j)
      PROVE  /\ r = runs /\ suite.at = "execute" /\ case[r][k] = Begun
             /\ case'[r][k].at = "executed" /\ json'[r][k] = Torn
  <2>1. PICK e \in Evidence[j] : case' = [case EXCEPT ![runs][j] = Executed(e)]
    BY <1>2 DEF ExecuteCase
  <2>2. runs \in Runs /\ json' = [json EXCEPT ![runs][j] = Torn]
    BY <1>2 DEF ExecuteCase, StoreInv, Running
  <2>3. r = runs /\ k = j /\ case'[r][k] = Executed(e)
    BY <1>0, <2>1, <2>2
  <2>. QED
    BY <1>0, <1>2, <2>2, <2>3 DEF ExecuteCase, Executed
<1>3. \/ \E j \in Keys : BeginCase(j) \/ ExecuteCase(j)
  BY <1>0 DEF Next, SuiteStep, RebuildStep, Interruption, StartSuite, SkipEntry,
     StartRun, WriteCase, WriteSummary, WriteManifest, SuiteDone, Crash,
     StartRebuild, RebuildCase, RebuildKilled, RebuildStopped, RebuildSummary,
     Aggregate, vars, runVars
<1>. QED
  BY <1>1, <1>2, <1>3

\* A case.json changes where the suite writes the one of a case it executed, or,
\* while no suite runs, in a rebuild, which adds no scores.
LEMMA FileChanges ==
    ASSUME StoreInv, [Next]_vars, NEW r \in Runs, NEW k \in Keys,
           json'[r][k] # json[r][k]
    PROVE  /\ json'[r][k] # NoFile
           /\ \/ /\ suite.at = "execute" /\ r = runs
                 /\ json[r][k] = NoFile /\ json'[r][k] = Torn
              \/ /\ suite.at = "write" /\ r = runs /\ k \in todo
                 /\ json[r][k] = Torn
                 /\ case[r][k].at = "executed" /\ case' = case
              \/ /\ suite.at = "off" /\ case' = case
                 /\ json'[r][k].kind = "result" =>
                        \/ json'[r][k].scored = "none"
                        \/ /\ Readable(r, k)
                           /\ json'[r][k].scored = json[r][k].scored
<1>0. /\ json \in [Runs -> [Keys -> Files]] /\ json' # json
  BY DEF StoreInv, TypeOK
<1>. DEFINE Goal == /\ json'[r][k] # NoFile
                    /\ \/ /\ suite.at = "execute" /\ r = runs
                          /\ json[r][k] = NoFile /\ json'[r][k] = Torn
                       \/ /\ suite.at = "write" /\ r = runs /\ k \in todo
                          /\ json[r][k] = Torn
                          /\ case[r][k].at = "executed" /\ case' = case
                       \/ /\ suite.at = "off" /\ case' = case
                          /\ json'[r][k].kind = "result" =>
                                 \/ json'[r][k].scored = "none"
                                 \/ /\ Readable(r, k)
                                    /\ json'[r][k].scored = json[r][k].scored
<1>1. ASSUME NEW q \in Runs, NEW j \in Keys, NEW f,
             json' = [json EXCEPT ![q][j] = f]
      PROVE  q = r /\ j = k /\ json'[r][k] = f
  BY <1>0, <1>1
<1>2. ASSUME NEW j \in Keys, ExecuteCase(j)
      PROVE  Goal
  <2>1. /\ runs \in Runs /\ suite.at = "execute"
        /\ json' = [json EXCEPT ![runs][j] = Torn]
        /\ case[runs][j].at # "executed"
    BY <1>2 DEF ExecuteCase, StoreInv, Running, Begun
  <2>2. json[runs][j] = NoFile
    BY <2>1 DEF StoreInv, Running
  <2>. QED
    BY <1>1, <2>1, <2>2 DEF Torn, NoFile
<1>3. ASSUME NEW j \in Keys, WriteCase(j)
      PROVE  Goal
  <2>1. /\ runs \in Runs /\ suite.at = "write" /\ j \in todo
        /\ json[runs][j] = Torn /\ case' = case
        /\ json' = [json EXCEPT ![runs][j] =
                        Result(Evaluated(case[runs][j].left),
                               Evaluated(case[runs][j].left))]
    BY <1>3 DEF WriteCase, StoreInv, Running, runVars
  <2>2. case[runs][j].at = "executed"
    BY <2>1, LeftTyped
  <2>. QED
    BY <1>1, <2>1, <2>2 DEF Result, NoFile
<1>4. ASSUME NEW j \in Keys, RebuildCase(j)
      PROVE  Goal
  <2>1. PICK f \in RebuiltFiles(tool.run, j) :
            json' = [json EXCEPT ![tool.run][j] = f]
    BY <1>4 DEF RebuildCase
  <2>2. /\ tool.at = "cases" /\ j \in tool.left /\ case' = case
        /\ suite.at = "off" /\ tool.run \in Runs
    BY <1>4, ToolTyped DEF RebuildCase, StoreInv, runVars
  <2>3. tool.run = r /\ j = k /\ json'[r][k] = f
    BY <1>1, <2>1, <2>2
  <2>. QED
    BY <2>1, <2>2, <2>3, RebuiltKeepsScores DEF Readable
<1>5. ASSUME NEW j \in Keys, RebuildKilled(j)
      PROVE  Goal
  <2>1. /\ json' = [json EXCEPT ![tool.run][j] = Torn] /\ case' = case
        /\ suite.at = "off" /\ tool.run \in Runs
    BY <1>5, ToolTyped DEF RebuildKilled, StoreInv, runVars
  <2>2. json'[r][k] = Torn
    BY <1>1, <2>1
  <2>. QED
    BY <2>1, <2>2 DEF Torn, NoFile
<1>6. \E j \in Keys : \/ ExecuteCase(j) \/ WriteCase(j)
                      \/ RebuildCase(j) \/ RebuildKilled(j)
  BY <1>0 DEF Next, SuiteStep, RebuildStep, Interruption, StartSuite, SkipEntry,
     StartRun, BeginCase, WriteSummary, WriteManifest, SuiteDone, Crash,
     StartRebuild, RebuildStopped, RebuildSummary, Aggregate, vars
<1>. QED
  BY <1>2, <1>3, <1>4, <1>5, <1>6

LEMMA RunsGrow ==
    ASSUME StoreInv, [Next]_vars
    PROVE  /\ runs \in Nat /\ 1 .. runs \subseteq Runs /\ Runs \subseteq Nat
           /\ runs' = runs \/ runs' = runs + 1
<1>1. runs \in Nat /\ 1 .. runs \subseteq Runs /\ Runs \subseteq Nat
  BY ConstantsAssumption DEF StoreInv, TypeOK, Runs
<1>2. CASE StartRun
  BY <1>1, <1>2 DEF StartRun
<1>3. CASE ~StartRun
  BY <1>1, <1>3 DEF Next, SuiteStep, RebuildStep, Interruption, StartSuite,
     SkipEntry, BeginCase, ExecuteCase, WriteCase, WriteSummary, WriteManifest,
     SuiteDone, Crash, StartRebuild, RebuildCase, RebuildKilled, RebuildStopped,
     RebuildSummary, Aggregate, vars, runVars
<1>. QED
  BY <1>1, <1>2, <1>3

-----------------------------------------------------------------------------
(* Reports *)

\* An executed case has a case.json, be it cut short, and a begun run.
Filed == \A r \in Runs, k \in Keys :
             case[r][k].at = "executed" => r <= runs /\ json[r][k] # NoFile

LEMMA NextFiled == StoreInv /\ Filed /\ [Next]_vars => Filed'
<1>. SUFFICES ASSUME StoreInv, Filed, [Next]_vars,
                     NEW r \in Runs, NEW k \in Keys, case'[r][k].at = "executed"
              PROVE  r <= runs' /\ json'[r][k] # NoFile
  BY DEF Filed
<1>1. /\ r \in Nat /\ runs \in Nat
      /\ runs' = runs \/ runs' = runs + 1
  BY RunsGrow
<1>2. r <= runs
  <2>1. CASE case'[r][k] = case[r][k]
    BY <2>1 DEF Filed
  <2>2. CASE case'[r][k] # case[r][k]
    BY <1>1, <2>2, CaseChanges
  <2>. QED
    BY <2>1, <2>2
<1>3. json'[r][k] # NoFile
  <2>1. CASE json'[r][k] # json[r][k]
    BY <2>1, FileChanges
  <2>2. CASE json'[r][k] = json[r][k] /\ case'[r][k] = case[r][k]
    BY <2>2 DEF Filed
  <2>3. CASE json'[r][k] = json[r][k] /\ case'[r][k] # case[r][k]
    <3>1. json'[r][k] = Torn
      BY <2>3, CaseChanges DEF Begun
    <3>. QED
      BY <3>1 DEF Torn, NoFile
  <2>. QED
    BY <2>1, <2>2, <2>3
<1>. QED
  BY <1>1, <1>2, <1>3

LEMMA InitFiled == Init => Filed
<1>. SUFFICES ASSUME Init, NEW r \in Runs, NEW k \in Keys
              PROVE  case[r][k].at # "executed"
  BY DEF Filed
<1>. QED
  BY DEF Init, Absent

LEMMA FiledAlways == Spec => []Filed
  BY InitFiled, NextFiled, StoreInvariant, PTL DEF Spec

\* For any runs, however they ended: a report that is published leaves out no
\* case that was executed.
THEOREM ReportsAreComplete == Spec => PublishedIsComplete
<1>. DEFINE Complete == \A r \in 1 .. runs, k \in Keys :
                            case[r][k].at = "executed" =>
                                Readable(r, k) /\ summary[r]
            A == (Aggregate /\ published') => Complete
<1>1. StoreInv /\ Filed /\ [Next]_vars => [A]_vars
  <2>. SUFFICES ASSUME StoreInv, Filed, Aggregate, published',
                       NEW r \in 1 .. runs, NEW k \in Keys,
                       case[r][k].at = "executed"
                PROVE  Readable(r, k) /\ summary[r]
    OBVIOUS
  <2>1. r \in Runs
    BY ConstantsAssumption DEF StoreInv, TypeOK, Runs
  <2>2. json[r][k] # NoFile
    BY <2>1 DEF Filed
  <2>3. Readable(r, k)
    BY <2>2 DEF Aggregate
  <2>4. summary[r]
    BY <2>2 DEF Aggregate, SummaryMissing
  <2>. QED
    BY <2>3, <2>4
<1>2. [][A]_vars => PublishedIsComplete
  BY DEF PublishedIsComplete
<1>. QED
  BY <1>1, <1>2, StoreInvariant, FiledAlways, PTL DEF Spec

-----------------------------------------------------------------------------
(* Resumption: what has a result is not executed again *)

\* While a resumed suite runs it has counted every key with a result but those
\* of its current run, which are of the keys that run was started for; and what
\* it has still to do is not counted.
Accounted ==
    suite.at # "off" /\ suite.resume =>
        /\ \A r \in Runs, k \in Keys :
               r <= runs /\ Readable(r, k) =>
                   k \in completed \/ (suite.at \in Running /\ r = runs)
        /\ suite.at \in Running =>
               /\ todo \subseteq target[runs]
               /\ todo \cap completed = {}
               /\ \A k \in Keys : Readable(runs, k) => k \in target[runs]

LEMMA SuiteAccounts ==
    ASSUME StoreInv, Accounted, StartSuite \/ SuiteStep \/ Crash
    PROVE  Accounted'
<1>. USE ConstantsAssumption
<1>0. /\ runs \in Nat /\ Runs = 1 .. MaxRuns /\ MaxRuns \in Nat
      /\ json \in [Runs -> [Keys -> Files]] /\ target \in [Runs -> SUBSET Keys]
      /\ Unmade
  BY Parts DEF TypeOK, Runs
<1>1. CASE StartSuite
  <2>1. PICK resume \in BOOLEAN :
          /\ suite' = [at |-> "entry", i |-> 1, resume |-> resume]
          /\ completed' = IF resume THEN UNION {CompletedIn(r) : r \in 1 .. runs}
                                    ELSE {}
    BY <1>1 DEF StartSuite
  <2>2. runs' = runs /\ json' = json
    BY <1>1 DEF StartSuite, runVars
  <2>3. ASSUME resume, NEW r \in Runs, NEW k \in Keys,
               r <= runs, Readable(r, k)
        PROVE  k \in completed'
    <3>1. k \in CompletedIn(r)
      BY <2>3 DEF CompletedIn
    <3>2. r \in 1 .. runs
      BY <1>0, <2>3
    <3>. QED
      BY <2>1, <2>3, <3>1, <3>2
  <2>4. suite'.at = "entry" /\ suite'.resume = resume
    BY <2>1
  <2>. QED
    BY <2>2, <2>3, <2>4 DEF Accounted, Readable, Running
<1>2. CASE SkipEntry
  <2>1. suite'.at = "entry" /\ suite'.resume = suite.resume
    BY <1>2, SuiteTyped DEF SkipEntry, StoreInv
  <2>2. suite.at = "entry" /\ UNCHANGED <<runs, json, completed>>
    BY <1>2 DEF SkipEntry, runVars
  <2>. QED
    BY <2>1, <2>2 DEF Accounted, Readable, Running
<1>3. CASE StartRun
  <2>1. suite'.at = "case" /\ suite'.resume = suite.resume
    BY <1>3, SuiteTyped DEF StartRun, StoreInv
  <2>2. /\ suite.at = "entry" /\ runs' = runs + 1 /\ runs' \in Runs
        /\ UNCHANGED <<json, completed>>
    BY <1>0, <1>3 DEF StartRun
  <2>3. todo' = Missing(suite.i) /\ target'[runs'] = Missing(suite.i)
    BY <1>0, <1>3, <2>2 DEF StartRun
  <2>4. suite.resume => Missing(suite.i) \cap completed = {}
    BY DEF Missing
  <2>5. \A k \in Keys : ~Readable(runs', k)
    BY <1>0, <2>2 DEF Unmade, Readable, NoFile
  <2>6. \A r \in Runs : r <= runs' => r <= runs \/ r = runs'
    BY <1>0, <2>2
  <2>. QED
    BY <2>1, <2>2, <2>3, <2>4, <2>5, <2>6 DEF Accounted, Readable, Running
<1>4. ASSUME NEW k \in Keys, BeginCase(k)
      PROVE  Accounted'
  <2>1. suite'.at = "execute" /\ suite'.resume = suite.resume
    BY <1>4, SuiteTyped DEF BeginCase, StoreInv
  <2>2. suite.at = "case" /\ UNCHANGED <<runs, target, json, todo, completed>>
    BY <1>4 DEF BeginCase
  <2>. QED
    BY <2>1, <2>2 DEF Accounted, Readable, Running
<1>5. ASSUME NEW k \in Keys, ExecuteCase(k)
      PROVE  Accounted'
  <2>1. suite'.at = "write" /\ suite'.resume = suite.resume
    BY <1>5, SuiteTyped DEF ExecuteCase, StoreInv
  <2>2. /\ suite.at = "execute" /\ UNCHANGED <<runs, target, todo, completed>>
        /\ json' = [json EXCEPT ![runs][k] = Torn]
    BY <1>5 DEF ExecuteCase
  <2>3. \A r \in Runs, j \in Keys : Readable(r, j)' => Readable(r, j)
    BY <1>0, <2>2 DEF Readable, Torn
  <2>4. runs \in Runs
    BY <2>2 DEF StoreInv, Running
  <2>. QED
    BY <2>1, <2>2, <2>3, <2>4 DEF Accounted, Running
<1>6. ASSUME NEW k \in Keys, WriteCase(k)
      PROVE  Accounted'
  <2>1. suite'.at = "case" /\ suite'.resume = suite.resume
    BY <1>6, SuiteTyped DEF WriteCase, StoreInv
  <2>2. /\ suite.at = "write" /\ UNCHANGED <<runs, target, completed>>
        /\ k \in todo /\ todo' = todo \ {k} /\ runs \in Runs
    BY <1>6 DEF WriteCase, runVars, StoreInv, Running
  <2>3. ASSUME NEW r \in Runs, NEW j \in Keys, Readable(r, j)'
        PROVE  Readable(r, j) \/ (r = runs /\ j \in todo)
    BY <2>2, <2>3, FileChanges, <1>6 DEF Readable, Next, SuiteStep
  <2>. QED
    BY <2>1, <2>2, <2>3 DEF Accounted, Running
<1>7. CASE WriteSummary
  <2>1. suite'.at = "manifest" /\ suite'.resume = suite.resume
    BY <1>7, SuiteTyped DEF WriteSummary, StoreInv
  <2>2. suite.at = "case" /\ UNCHANGED <<runs, target, json, todo, completed>>
    BY <1>7 DEF WriteSummary, runVars
  <2>. QED
    BY <2>1, <2>2 DEF Accounted, Readable, Running
<1>8. CASE WriteManifest
  <2>1. suite'.at = "entry" /\ suite'.resume = suite.resume
    BY <1>8, SuiteTyped DEF WriteManifest, StoreInv
  <2>2. /\ suite.at = "manifest" /\ UNCHANGED <<runs, json>>
        /\ suite.resume => completed' = completed \cup target[runs]
    BY <1>8 DEF WriteManifest
  <2>. QED
    BY <2>1, <2>2 DEF Accounted, Readable, Running
<1>9. CASE SuiteDone \/ Crash
  BY <1>9 DEF SuiteDone, Crash, Off, Accounted
<1>. QED
  BY <1>1, <1>2, <1>3, <1>4, <1>5, <1>6, <1>7, <1>8, <1>9 DEF SuiteStep

\* While a rebuild or an aggregation steps, and where nothing does, no suite is
\* on or the suite stays as it is.
LEMMA ToolsLeaveSuite ==
    ASSUME StoreInv, [Next]_vars, ~(StartSuite \/ SuiteStep \/ Crash)
    PROVE  \/ suite.at = "off" /\ suite'.at = "off"
           \/ UNCHANGED vars
  BY DEF Next, RebuildStep, Interruption, StartRebuild, RebuildCase, RebuildKilled,
     RebuildStopped, RebuildSummary, Aggregate, StoreInv

LEMMA NextAccounted == StoreInv /\ Accounted /\ [Next]_vars => Accounted'
<1>. SUFFICES ASSUME StoreInv, Accounted, [Next]_vars PROVE Accounted'
  OBVIOUS
<1>1. CASE StartSuite \/ SuiteStep \/ Crash
  BY <1>1, SuiteAccounts
<1>2. CASE suite.at = "off" /\ suite'.at = "off"
  BY <1>2 DEF Accounted
<1>3. CASE UNCHANGED vars
  BY <1>3 DEF Accounted, Readable, vars, runVars
<1>. QED
  BY <1>1, <1>2, <1>3, ToolsLeaveSuite

LEMMA AccountedAlways == Spec => []Accounted
<1>1. Init => Accounted
  BY DEF Init, Off, Accounted
<1>. QED
  BY <1>1, NextAccounted, StoreInvariant, PTL DEF Spec

\* For any suite, any number of runs, crashes and rebuilds: a resumed suite
\* begins no case that an earlier run has a readable case.json of.
THEOREM NothingRunsTwice == Spec => NoReexecution
<1>. DEFINE A == \A k \in Keys :
                     /\ suite.at = "case" /\ suite.resume
                     /\ case[runs][k] # case'[runs][k]
                     => \A r \in 1 .. (runs - 1) : ~Readable(r, k)
<1>1. StoreInv /\ Accounted /\ [Next]_vars => [A]_vars
  <2>. SUFFICES ASSUME StoreInv, Accounted, [Next]_vars, NEW k \in Keys,
                       suite.at = "case", suite.resume,
                       case[runs][k] # case'[runs][k],
                       NEW r \in 1 .. (runs - 1)
                PROVE  ~Readable(r, k)
    OBVIOUS
  <2>1. runs \in Runs
    BY DEF StoreInv, Running
  <2>2. r \in Runs /\ r < runs
    BY <2>1, ConstantsAssumption DEF Runs
  <2>3. k \in todo
    BY <2>1, CaseChanges
  <2>4. k \notin completed
    BY <2>3 DEF Accounted, Running
  <2>5. r <= runs /\ r # runs
    BY <2>1, <2>2, ConstantsAssumption DEF Runs
  <2>. QED
    BY <2>2, <2>4, <2>5 DEF Accounted
<1>2. [][A]_vars => NoReexecution
  BY DEF NoReexecution
<1>. QED
  BY <1>1, <1>2, StoreInvariant, AccountedAlways, PTL DEF Spec

-----------------------------------------------------------------------------
(* Resumption: what is skipped was executed, or computed by a rebuild *)

\* A manifest stands for executed cases and a summary, a score for an executed
\* case.
Honest ==
    /\ \A r \in Runs : manifest[r] => summary[r]
    /\ \A r \in Runs, k \in Keys :
           manifest[r] /\ k \in target[r] => case[r][k].at = "executed"
    /\ \A r \in Runs : r > runs => ~manifest[r]
    /\ \A r \in Runs, k \in Keys :
           Readable(r, k) /\ json[r][k].scored # "none" =>
               case[r][k].at = "executed"

Recorded(k) == OnRecord(k) \/ Fabricated(k)

\* While a suite runs: the keys of the entries behind it, and the keys it counts
\* as completed, are recorded; those its current run was started for are still
\* to do or executed, and are all its entry selects but the completed ones.
Ledger ==
    /\ suite.at # "off" =>
           /\ \A i \in 1 .. Len(Suite) :
                  i < suite.i => \A k \in Suite[i] : Recorded(k)
           /\ \A k \in completed : Recorded(k)
    /\ suite.at \in Running =>
           /\ \A k \in target[runs] : k \in todo \/ case[runs][k].at = "executed"
           /\ \A k \in Suite[suite.i] : k \in target[runs] \/ k \in completed
    /\ suite.at = "manifest" => todo = {} /\ summary[runs]

\* Nothing undoes an execution.
LEMMA ExecutedStays ==
    ASSUME StoreInv, [Next]_vars, NEW r \in Runs, NEW k \in Keys,
           case[r][k].at = "executed"
    PROVE  case'[r][k] = case[r][k]
<1>. SUFFICES ASSUME case'[r][k] # case[r][k] PROVE FALSE
  OBVIOUS
<1>1. suite.at = "case" /\ case'[r][k] = Begun /\ json' = json
  BY CaseChanges DEF Begun
<1>2. \E j \in Keys : BeginCase(j)
  BY <1>1 DEF Next, SuiteStep, RebuildStep, Interruption, StartSuite, SkipEntry,
     StartRun, ExecuteCase, WriteCase, WriteSummary, WriteManifest, SuiteDone,
     Crash, StartRebuild, RebuildCase, RebuildKilled, RebuildStopped,
     RebuildSummary, Aggregate, vars, runVars
<1>3. PICK j \in Keys : BeginCase(j)
  BY <1>2
<1>4. /\ case[runs][j] = Absent /\ case' = [case EXCEPT ![runs][j] = Begun]
      /\ case \in [Runs -> [Keys -> Cases]] /\ runs \in Runs
  BY <1>3 DEF BeginCase, StoreInv, TypeOK, Running
<1>5. r = runs /\ k = j
  BY <1>4
<1>. QED
  BY <1>4, <1>5 DEF Absent

\* What a run was started for stands, and so do its summary and its manifest.
LEMMA RunStands ==
    ASSUME StoreInv, [Next]_vars, NEW r \in Runs
    PROVE  /\ r <= runs => target'[r] = target[r]
           /\ manifest[r] => manifest'[r]
           /\ summary[r] => summary'[r]
<1>0. /\ runs \in Nat /\ Runs \subseteq Nat
      /\ target \in [Runs -> SUBSET Keys]
      /\ manifest \in [Runs -> BOOLEAN] /\ summary \in [Runs -> BOOLEAN]
  BY RunsGrow DEF StoreInv, TypeOK
<1>1. r <= runs => target'[r] = target[r]
  <2>1. CASE StartRun
    BY <1>0, <2>1 DEF StartRun
  <2>2. CASE ~StartRun
    BY <2>2 DEF Next, SuiteStep, RebuildStep, Interruption, StartSuite,
       SkipEntry, BeginCase, ExecuteCase, WriteCase, WriteSummary, WriteManifest,
       SuiteDone, Crash, StartRebuild, RebuildCase, RebuildKilled,
       RebuildStopped, RebuildSummary, Aggregate, vars, runVars
  <2>. QED
    BY <2>1, <2>2
<1>2. manifest[r] => manifest'[r]
  <2>1. CASE WriteManifest
    BY <1>0, <2>1 DEF WriteManifest
  <2>2. CASE ~WriteManifest
    BY <2>2 DEF Next, SuiteStep, RebuildStep, Interruption, StartSuite,
       SkipEntry, StartRun, BeginCase, ExecuteCase, WriteCase, WriteSummary,
       SuiteDone, Crash, StartRebuild, RebuildCase, RebuildKilled,
       RebuildStopped, RebuildSummary, Aggregate, vars, runVars
  <2>. QED
    BY <2>1, <2>2
<1>3. summary[r] => summary'[r]
  <2>1. CASE WriteSummary \/ RebuildSummary
    BY <1>0, <2>1 DEF WriteSummary, RebuildSummary
  <2>2. CASE ~WriteSummary /\ ~RebuildSummary
    BY <2>2 DEF Next, SuiteStep, RebuildStep, Interruption, StartSuite,
       SkipEntry, StartRun, BeginCase, ExecuteCase, WriteCase, WriteManifest,
       SuiteDone, Crash, StartRebuild, RebuildCase, RebuildKilled,
       RebuildStopped, Aggregate, vars, runVars
  <2>. QED
    BY <2>1, <2>2
<1>. QED
  BY <1>1, <1>2, <1>3

\* While a suite runs nothing that is recorded stops being it.
LEMMA RecordedStays ==
    ASSUME StoreInv, [Next]_vars, suite.at # "off", NEW k \in Keys, Recorded(k)
    PROVE  Recorded(k)'
<1>0. /\ runs \in Nat /\ 1 .. runs \subseteq Runs
      /\ runs' = runs \/ runs' = runs + 1
  BY RunsGrow
<1>1. CASE OnRecord(k)
  <2>1. PICK r \in 1 .. runs : /\ case[r][k].at = "executed"
                              /\ \/ Readable(r, k)
                                 \/ manifest[r] /\ k \in target[r]
    BY <1>1 DEF OnRecord
  <2>2. case'[r][k] = case[r][k]
    BY <1>0, <2>1, ExecutedStays
  <2>3. r \in 1 .. runs' /\ r \in Runs /\ r <= runs
    BY <1>0
  <2>4. Readable(r, k) => json'[r][k] = json[r][k]
    BY <2>3, FileChanges DEF Readable, NoFile, Torn
  <2>5. target'[r] = target[r] /\ (manifest[r] => manifest'[r])
    BY <2>3, RunStands
  <2>. QED
    BY <2>1, <2>2, <2>3, <2>4, <2>5 DEF Recorded, OnRecord, Readable
<1>2. CASE Fabricated(k)
  <2>1. PICK r \in 1 .. runs : Readable(r, k) /\ json[r][k].scored = "none"
    BY <1>2 DEF Fabricated
  <2>2. json'[r][k] = json[r][k]
    BY <1>0, <2>1, FileChanges DEF Readable, NoFile, Torn
  <2>3. r \in 1 .. runs'
    BY <1>0
  <2>. QED
    BY <2>1, <2>2, <2>3 DEF Recorded, Fabricated, Readable
<1>. QED
  BY <1>1, <1>2 DEF Recorded

LEMMA NextHonest == StoreInv /\ Honest /\ Ledger /\ [Next]_vars => Honest'
<1>. SUFFICES ASSUME StoreInv, Honest, Ledger, [Next]_vars PROVE Honest'
  OBVIOUS
<1>0. /\ runs \in Nat /\ Runs \subseteq Nat
      /\ runs' = runs \/ runs' = runs + 1
      /\ manifest \in [Runs -> BOOLEAN] /\ target \in [Runs -> SUBSET Keys]
  BY RunsGrow DEF StoreInv, TypeOK
<1>1. ASSUME NEW r \in Runs, NEW k \in Keys, case[r][k].at = "executed"
      PROVE  case'[r][k].at = "executed"
  BY <1>1, ExecutedStays
<1>2. ASSUME NEW r \in Runs, NEW k \in Keys,
             Readable(r, k)', json'[r][k].scored # "none"
      PROVE  case'[r][k].at = "executed"
  <2>1. CASE json'[r][k] = json[r][k]
    BY <1>1, <1>2, <2>1 DEF Honest, Readable
  <2>2. CASE json'[r][k] # json[r][k]
    <3>1. case[r][k].at = "executed"
      BY <1>2, <2>2, FileChanges DEF Readable, Torn, Honest
    <3>. QED
      BY <1>1, <3>1
  <2>. QED
    BY <2>1, <2>2
<1>3. \A r \in Runs : manifest'[r] => summary'[r]
  <2>1. CASE WriteManifest
    <3>1. /\ suite.at = "manifest" /\ runs \in Runs
          /\ manifest' = [manifest EXCEPT ![runs] = TRUE]
      BY <2>1 DEF WriteManifest, StoreInv, Running
    <3>2. summary[runs] /\ \A r \in Runs : r # runs => manifest'[r] = manifest[r]
      BY <1>0, <3>1 DEF Ledger
    <3>. QED
      BY <3>2, RunStands DEF Honest
  <2>2. CASE ~WriteManifest
    <3>1. manifest' = manifest
      BY <2>2 DEF Next, SuiteStep, RebuildStep, Interruption, StartSuite,
         SkipEntry, StartRun, BeginCase, ExecuteCase, WriteCase, WriteSummary,
         SuiteDone, Crash, StartRebuild, RebuildCase, RebuildKilled,
         RebuildStopped, RebuildSummary, Aggregate, vars, runVars
    <3>. QED
      BY <3>1, RunStands DEF Honest
  <2>. QED
    BY <2>1, <2>2
<1>4. CASE StartRun
  <2>1. /\ runs' = runs + 1 /\ manifest' = manifest /\ runs + 1 \in Runs
        /\ target' = [target EXCEPT ![runs + 1] = Missing(suite.i)]
    BY <1>4, ConstantsAssumption DEF StartRun, Runs, StoreInv, TypeOK
  <2>2. ~manifest[runs + 1]
    BY <1>0, <2>1 DEF Honest
  <2>3. \A r \in Runs : r # runs + 1 => target'[r] = target[r]
    BY <1>0, <2>1
  <2>4. \A r \in Runs : r > runs' => ~manifest'[r]
    BY <1>0, <2>1 DEF Honest
  <2>5. \A r \in Runs, k \in Keys :
            manifest'[r] /\ k \in target'[r] => case'[r][k].at = "executed"
    BY <1>1, <2>1, <2>2, <2>3 DEF Honest
  <2>. QED
    BY <1>3, <1>2, <2>4, <2>5 DEF Honest
<1>5. CASE WriteManifest
  <2>1. /\ runs' = runs /\ target' = target /\ runs \in Runs
        /\ suite.at = "manifest" /\ suite.at \in Running
        /\ manifest' = [manifest EXCEPT ![runs] = TRUE]
    BY <1>5 DEF WriteManifest, StoreInv, Running
  <2>2. \A k \in target[runs] : case[runs][k].at = "executed"
    BY <2>1 DEF Ledger
  <2>3. \A r \in Runs : r # runs => manifest'[r] = manifest[r]
    BY <1>0, <2>1
  <2>4. \A r \in Runs : r > runs' => ~manifest'[r]
    BY <1>0, <2>1, <2>3 DEF Honest
  <2>5. \A r \in Runs, k \in Keys :
            manifest'[r] /\ k \in target'[r] => case'[r][k].at = "executed"
    BY <1>1, <2>1, <2>2, <2>3 DEF Honest
  <2>. QED
    BY <1>3, <1>2, <2>4, <2>5 DEF Honest
<1>6. CASE ~StartRun /\ ~WriteManifest
  <2>1. UNCHANGED <<runs, target, manifest>>
    BY <1>6 DEF Next, SuiteStep, RebuildStep, Interruption, StartSuite, SkipEntry,
       BeginCase, ExecuteCase, WriteCase, WriteSummary, SuiteDone, Crash,
       StartRebuild, RebuildCase, RebuildKilled, RebuildStopped, RebuildSummary,
       Aggregate, vars, runVars
  <2>2. /\ \A r \in Runs : r > runs' => ~manifest'[r]
        /\ \A r \in Runs, k \in Keys :
               manifest'[r] /\ k \in target'[r] => case'[r][k].at = "executed"
    BY <1>1, <2>1 DEF Honest
  <2>. QED
    BY <1>3, <1>2, <2>2 DEF Honest
<1>. QED
  BY <1>4, <1>5, <1>6

LEMMA SuiteLedger ==
    ASSUME StoreInv, Honest, Ledger, StartSuite \/ SuiteStep \/ Crash
    PROVE  Ledger'
<1>. USE ConstantsAssumption
<1>0. /\ runs \in Nat /\ 1 .. runs \subseteq Runs /\ Len(Suite) \in Nat
      /\ \A i \in 1 .. Len(Suite) : Suite[i] \subseteq Keys
      /\ target \in [Runs -> SUBSET Keys] /\ completed \subseteq Keys
      /\ Next
  BY RunsGrow DEF StoreInv, TypeOK, Next, Interruption
<1>1. ASSUME suite.at # "off", NEW k \in Keys, Recorded(k)
      PROVE  Recorded(k)'
  BY <1>0, <1>1, RecordedStays
<1>2. ASSUME NEW r \in Runs, NEW k \in Keys, case[r][k].at = "executed"
      PROVE  case'[r][k].at = "executed"
  BY <1>0, <1>2, ExecutedStays
<1>3. CASE StartSuite
  <2>1. PICK resume \in BOOLEAN :
          /\ suite' = [at |-> "entry", i |-> 1, resume |-> resume]
          /\ completed' = IF resume THEN UNION {CompletedIn(r) : r \in 1 .. runs}
                                    ELSE {}
    BY <1>3 DEF StartSuite
  <2>2. UNCHANGED <<runs, json, case, manifest, target>>
    BY <1>3 DEF StartSuite, runVars
  <2>3. ASSUME NEW r \in 1 .. runs, NEW k \in CompletedIn(r)
        PROVE  Recorded(k)
    <3>1. r \in Runs /\ CompletedIn(r) \subseteq Keys
      BY <1>0 DEF CompletedIn
    <3>2. Readable(r, k) \/ (manifest[r] /\ k \in target[r])
      BY <2>3 DEF CompletedIn
    <3>3. case[r][k].at = "executed" \/ (Readable(r, k) /\ json[r][k].scored = "none")
      BY <3>1, <3>2 DEF Honest
    <3>. QED
      BY <3>2, <3>3 DEF Recorded, OnRecord, Fabricated
  <2>4. \A k \in completed' : Recorded(k)'
    BY <2>1, <2>2, <2>3 DEF Recorded, OnRecord, Fabricated, Readable
  <2>5. suite'.at = "entry" /\ suite'.i = 1
    BY <2>1
  <2>. QED
    BY <1>0, <2>4, <2>5 DEF Ledger, Running
<1>4. CASE SkipEntry
  <2>1. /\ suite'.at = "entry" /\ suite'.i = suite.i + 1
        /\ suite.i \in 1 .. Len(Suite)
    BY <1>0, <1>4, SuiteTyped DEF SkipEntry, StoreInv
  <2>2. /\ suite.at = "entry" /\ completed' = completed
        /\ Suite[suite.i] \subseteq completed
    BY <1>4 DEF SkipEntry, Missing
  <2>3. ASSUME NEW i \in 1 .. Len(Suite), i < suite'.i, NEW k \in Suite[i]
        PROVE  Recorded(k)'
    <3>1. i < suite.i \/ i = suite.i
      BY <1>0, <2>1, <2>3
    <3>2. Recorded(k)
      BY <2>2, <3>1 DEF Ledger
    <3>. QED
      BY <1>0, <1>1, <2>2, <3>2
  <2>4. \A k \in completed' : Recorded(k)'
    BY <1>0, <1>1, <2>2 DEF Ledger
  <2>. QED
    BY <2>1, <2>3, <2>4 DEF Ledger, Running
<1>5. ASSUME suite.at # "off", suite'.i = suite.i, completed' = completed
      PROVE  /\ \A i \in 1 .. Len(Suite) :
                    i < suite'.i => \A k \in Suite[i] : Recorded(k)'
             /\ \A k \in completed' : Recorded(k)'
  BY <1>0, <1>1, <1>5 DEF Ledger
<1>6. CASE StartRun
  <2>1. suite'.at = "case" /\ suite'.i = suite.i
    BY <1>6, SuiteTyped DEF StartRun, StoreInv
  <2>2. /\ suite.at = "entry" /\ completed' = completed
        /\ runs' = runs + 1 /\ runs + 1 \in Runs
        /\ todo' = Missing(suite.i)
        /\ target' = [target EXCEPT ![runs + 1] = Missing(suite.i)]
    BY <1>0, <1>6 DEF StartRun, Runs
  <2>3. target'[runs'] = Missing(suite.i)
    BY <1>0, <2>2
  <2>4. \A k \in Suite[suite'.i] : k \in target'[runs'] \/ k \in completed'
    BY <2>1, <2>2, <2>3 DEF Missing
  <2>. QED
    BY <1>5, <2>1, <2>2, <2>3, <2>4 DEF Ledger
<1>7. ASSUME NEW k \in Keys, BeginCase(k)
      PROVE  Ledger'
  <2>1. suite'.at = "execute" /\ suite'.i = suite.i
    BY <1>7, SuiteTyped DEF BeginCase, StoreInv
  <2>2. /\ suite.at = "case" /\ runs \in Runs
        /\ UNCHANGED <<runs, target, todo, completed>>
    BY <1>7 DEF BeginCase, StoreInv, Running
  <2>3. \A j \in target'[runs'] : j \in todo' \/ case'[runs'][j].at = "executed"
    BY <1>0, <1>2, <2>2 DEF Ledger, Running
  <2>. QED
    BY <1>5, <2>1, <2>2, <2>3 DEF Ledger, Running
<1>8. ASSUME NEW k \in Keys, ExecuteCase(k)
      PROVE  Ledger'
  <2>1. suite'.at = "write" /\ suite'.i = suite.i
    BY <1>8, SuiteTyped DEF ExecuteCase, StoreInv
  <2>2. /\ suite.at = "execute" /\ runs \in Runs
        /\ UNCHANGED <<runs, target, todo, completed>>
    BY <1>8 DEF ExecuteCase, StoreInv, Running
  <2>3. \A j \in target'[runs'] : j \in todo' \/ case'[runs'][j].at = "executed"
    BY <1>0, <1>2, <2>2 DEF Ledger, Running
  <2>. QED
    BY <1>5, <2>1, <2>2, <2>3 DEF Ledger, Running
<1>9. ASSUME NEW k \in Keys, WriteCase(k)
      PROVE  Ledger'
  <2>1. suite'.at = "case" /\ suite'.i = suite.i
    BY <1>9, SuiteTyped DEF WriteCase, StoreInv
  <2>2. /\ suite.at = "write" /\ runs \in Runs /\ todo' = todo \ {k}
        /\ json[runs][k] = Torn
        /\ UNCHANGED <<runs, case, target, completed>>
    BY <1>9 DEF WriteCase, runVars, StoreInv, Running
  <2>3. case[runs][k].at = "executed"
    BY <2>2, LeftTyped
  <2>4. \A j \in target'[runs'] : j \in todo' \/ case'[runs'][j].at = "executed"
    BY <2>2, <2>3 DEF Ledger, Running
  <2>. QED
    BY <1>5, <2>1, <2>2, <2>4 DEF Ledger, Running
<1>10. CASE WriteSummary
  <2>1. suite'.at = "manifest" /\ suite'.i = suite.i
    BY <1>10, SuiteTyped DEF WriteSummary, StoreInv
  <2>2. /\ suite.at = "case" /\ todo = {}
        /\ UNCHANGED <<runs, case, target, todo, completed>>
    BY <1>10 DEF WriteSummary, runVars
  <2>3. summary'[runs']
    BY <1>10, <2>2 DEF WriteSummary, StoreInv, TypeOK, Running
  <2>. QED
    BY <1>5, <2>1, <2>2, <2>3 DEF Ledger, Running
<1>11. CASE WriteManifest
  <2>1. /\ suite'.at = "entry" /\ suite'.i = suite.i + 1
        /\ suite.i \in 1 .. Len(Suite)
    BY <1>0, <1>11, SuiteTyped DEF WriteManifest, StoreInv, Running
  <2>2. /\ suite.at = "manifest" /\ suite.at \in Running /\ runs \in Runs
        /\ completed' = completed \/ completed' = completed \cup target[runs]
        /\ runs \in 1 .. runs
    BY <1>0, <1>11 DEF WriteManifest, StoreInv, Running, Runs
  <2>3. \A k \in target[runs] : k \in Keys /\ Recorded(k)'
    <3>1. /\ UNCHANGED <<runs, target, case>>
          /\ manifest'[runs] /\ target[runs] \subseteq Keys
      BY <1>0, <1>11, <2>2 DEF WriteManifest, StoreInv, TypeOK
    <3>2. \A k \in target[runs] : case[runs][k].at = "executed"
      BY <2>2 DEF Ledger
    <3>. QED
      BY <2>2, <3>1, <3>2 DEF Recorded, OnRecord
  <2>4. \A k \in completed' : Recorded(k)'
    BY <1>0, <1>1, <2>2, <2>3 DEF Ledger
  <2>5. ASSUME NEW i \in 1 .. Len(Suite), i < suite'.i, NEW k \in Suite[i]
        PROVE  Recorded(k)'
    <3>1. i < suite.i \/ i = suite.i
      BY <1>0, <2>1, <2>5
    <3>2. Recorded(k) \/ k \in target[runs]
      BY <2>2, <3>1 DEF Ledger
    <3>. QED
      BY <1>0, <1>1, <2>2, <2>3, <3>2
  <2>. QED
    BY <2>1, <2>4, <2>5 DEF Ledger, Running
<1>12. CASE SuiteDone \/ Crash
  BY <1>12 DEF SuiteDone, Crash, Off, Ledger, Running
<1>. QED
  BY <1>3, <1>4, <1>6, <1>7, <1>8, <1>9, <1>10, <1>11, <1>12 DEF SuiteStep

LEMMA NextLedger == StoreInv /\ Honest /\ Ledger /\ [Next]_vars => Ledger'
<1>. SUFFICES ASSUME StoreInv, Honest, Ledger, [Next]_vars PROVE Ledger'
  OBVIOUS
<1>1. CASE StartSuite \/ SuiteStep \/ Crash
  BY <1>1, SuiteLedger
<1>2. CASE suite.at = "off" /\ suite'.at = "off"
  BY <1>2 DEF Ledger, Running
<1>3. CASE UNCHANGED vars
  BY <1>3 DEF Ledger, Recorded, OnRecord, Fabricated, Readable, vars, runVars
<1>. QED
  BY <1>1, <1>2, <1>3, ToolsLeaveSuite

LEMMA LedgerAlways == Spec => [](Honest /\ Ledger)
<1>1. Init => Honest /\ Ledger
  BY DEF Init, Honest, Ledger, Running, Off, Readable, NoFile
<1>. QED
  BY <1>1, NextHonest, NextLedger, StoreInvariant, PTL DEF Spec

\* For any suite, any number of runs, crashes and rebuilds: when a suite ends
\* each case it selects was executed and is on record in some run, by a readable
\* case.json or the manifest, or a rebuild computed a result for it.
THEOREM OnlyRecordedAreSkipped == Spec => SkippedOnlyIfRecorded
<1>. DEFINE A == SuiteEnds =>
                     \A k \in Selected : OnRecord(k) \/ Fabricated(k)
<1>1. StoreInv /\ Ledger => [A]_vars
  <2>. SUFFICES ASSUME StoreInv, Ledger, SuiteEnds, NEW k \in Selected
                PROVE  OnRecord(k) \/ Fabricated(k)
    OBVIOUS
  <2>1. PICK i \in 1 .. Len(Suite) : k \in Suite[i]
    BY DEF Selected
  <2>2. suite.at # "off" /\ suite.i > Len(Suite)
    BY DEF SuiteEnds
  <2>3. i < suite.i
    <3>1. Len(Suite) \in Nat /\ suite.i \in Nat
      BY <2>2, SuiteTyped, ConstantsAssumption DEF StoreInv
    <3>. QED
      BY <2>2, <3>1
  <2>4. Recorded(k)
    BY <2>1, <2>2, <2>3 DEF Ledger
  <2>. QED
    BY <2>4 DEF Recorded
<1>2. [][A]_vars => SkippedOnlyIfRecorded
  BY DEF SkippedOnlyIfRecorded
<1>. QED
  BY <1>1, <1>2, StoreInvariant, LedgerAlways, PTL

\* For any number of runs, whatever died and was rebuilt: the run of a manifest
\* has its summary, and all its cases were executed and have a case.json.
THEOREM ManifestsAreComplete == Spec => []ManifestMeansComplete
<1>1. StoreInv /\ Filed /\ Honest => ManifestMeansComplete
  <2>. SUFFICES ASSUME StoreInv, Filed, Honest, NEW r \in Runs, manifest[r],
                       NEW k \in target[r]
                PROVE  case[r][k].at = "executed" /\ json[r][k] # NoFile
    BY DEF ManifestMeansComplete, Honest
  <2>1. k \in Keys
    BY DEF StoreInv, TypeOK
  <2>. QED
    BY <2>1 DEF Honest, Filed
<1>. QED
  BY <1>1, StoreInvariant, FiledAlways, LedgerAlways, PTL
=============================================================================
