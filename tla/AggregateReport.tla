-------------------------- MODULE AggregateReport --------------------------
(* The rows and cells of the report that aggregate_reports writes over the runs
   of ResultStore (gripprobe/aggregate.py): which of several results of a test a
   cell links to, what it is labelled and coloured, and what the tests of a row
   add to its two scores.  Operators over the state of ResultStore: the report
   is a function of the case.json files.  All results of a key are taken to be
   of one row: same agent and model, their versions, and hardware. *)
EXTENDS ResultStore, FiniteSetsExt

CONSTANT Sanity   \* the keys of sanity tests

\* The specs of a repository are files, and so are the results.
ASSUME KeysAssumption == IsFiniteSet(Keys)

\* What a report is made of: no case.json that cannot be read.
Publishable ==
    \A r \in 1 .. runs, k \in Keys : json[r][k] = NoFile \/ Readable(r, k)

\* The results of a key, by the run directories that hold them; their order is
\* that of the runs.
Items(k) == {r \in 1 .. runs : Readable(r, k)}
OfStatus(k, status) == {r \in Items(k) : json[r][k].status = status}
HasStatus(k, status) == OfStatus(k, status) # {}

-----------------------------------------------------------------------------
(* A cell *)

\* Variant: the result of the earliest run.
RepresentativeOfFirstRun(k) == json[Min(Items(k))][k]

\* _representative_case: the first PASS, else the first policy violation, else
\* the first result.
Representative(k) ==
    LET best == IF HasStatus(k, "PASS") THEN OfStatus(k, "PASS")
                ELSE IF HasStatus(k, "PASS_WITH_POLICY_VIOLATION")
                     THEN OfStatus(k, "PASS_WITH_POLICY_VIOLATION")
                ELSE Items(k)
    IN  json[Min(best)][k]

\* _aggregate_cell_label
Label(k) ==
    IF HasStatus(k, "PASS") THEN "PASS"
    ELSE IF HasStatus(k, "PASS_WITH_POLICY_VIOLATION") THEN "POLICY"
    ELSE "FAIL"

\* _aggregate_cell_class, without the severity of what failed.
CellClass(k) ==
    LET statuses == {json[r][k].status : r \in Items(k)}
    IN  IF statuses = {"PASS"} THEN "agg-all-pass"
        ELSE IF "PASS" \in statuses THEN "agg-mixed"
        ELSE IF "PASS_WITH_POLICY_VIOLATION" \in statuses THEN "agg-policy"
        ELSE "agg-fail"

-----------------------------------------------------------------------------
(* The scores of a row, in tenths *)

\* What a status earns in the strict score and in the overall score.
Strict(status) == IF status = "PASS" THEN 10 ELSE 0
Overall(status) ==
    CASE status = "PASS" -> 10
      [] status = "PASS_WITH_POLICY_VIOLATION" -> 8
      [] status \notin {"PASS", "PASS_WITH_POLICY_VIOLATION"} -> 0

\* _strict_score_value, _overall_score_value: the score in the metadata stands
\* before the status.
Scored(item) == IF item.scored = "none" THEN item.status ELSE item.scored
StrictValue(item) == Strict(Scored(item))
OverallValue(item) == Overall(Scored(item))

\* _test_weight
Weight(k) == IF k \in Sanity THEN 8 ELSE 10

\* Numerators and denominator of _group_score and _group_overall_score, for the
\* tests of a row that have a result.
StrictSum(row) ==
    SumFunctionOnSet([k \in row |-> Weight(k) * StrictValue(Representative(k))], row)
OverallSum(row) ==
    SumFunctionOnSet([k \in row |-> Weight(k) * OverallValue(Representative(k))], row)
WeightSum(row) == SumFunctionOnSet([k \in row |-> Weight(k)], row)

-----------------------------------------------------------------------------
(* What a reader of the report may rely on. *)

Shown == {k \in Keys : Items(k) # {}}

\* A case whose status was recomputed keeps the scores of its former status.
Stale(k) == \E r \in Items(k) : Scored(json[r][k]) # json[r][k].status
Sum(row, credit) ==
    SumFunctionOnSet([k \in row |-> Weight(k) * credit[Label(k)]], row)
StrictCredit == [PASS |-> 10, POLICY |-> 0, FAIL |-> 0]
OverallCredit == [PASS |-> 10, POLICY |-> 8, FAIL |-> 0]

\* The colour of a cell tells what its label tells.
ColourFits(k) ==
    /\ Label(k) = "PASS" <=> CellClass(k) \in {"agg-all-pass", "agg-mixed"}
    /\ Label(k) = "POLICY" <=> CellClass(k) = "agg-policy"

\* A case whose success a recomputation turns into a failure that keeps its
\* scores: one of a web test, and one whose output says timeout=true though it
\* ended in time.
Overstatable(k) ==
    k \in Web \/ \E r \in Items(k) : /\ case[r][k].at = "executed"
                                     /\ case[r][k].left.marked
                                     /\ case[r][k].left.process # "timeout"

\* What the two scores of a row mean beside its cells, whatever was executed
\* again, interrupted, rebuilt or recomputed.  They are in order and within the
\* weights; where no recomputation can lower a success, the strict score is at
\* most the weighted share of cells labelled PASS and the overall score at most
\* that with policy violations at eight tenths; and where no recomputed case has
\* another status than its scores, they are equal.
ScoresFollowLabels ==
    Publishable => \A row \in SUBSET Shown :
        /\ \A k \in row : ColourFits(k)
        /\ StrictSum(row) <= OverallSum(row)
        /\ OverallSum(row) <= 10 * WeightSum(row)
        /\ (\A k \in row : ~Overstatable(k)) =>
               /\ StrictSum(row) <= Sum(row, StrictCredit)
               /\ OverallSum(row) <= Sum(row, OverallCredit)
        /\ (\A k \in row : ~Stale(k)) =>
               /\ StrictSum(row) = Sum(row, StrictCredit)
               /\ OverallSum(row) = Sum(row, OverallCredit)
=============================================================================
