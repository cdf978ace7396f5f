--------------------------- MODULE MCResultStore ---------------------------
(* The instances of ResultStore that TLC checks. *)
EXTENDS AggregateReport, TLC

CONSTANTS k1, k2

\* Two entries that select the same test twice.
OverlappingSuite == <<{k1, k2}, {k2}>>
OneEntry == <<{k1}>>

Left(artifact, process, tools, marked) ==
    [artifact |-> artifact, process |-> process, tool |-> tools, marked |-> marked]

\* A pass, a pass without tool use, a near miss and a timeout after success.
FourOutcomes == [k \in Keys |->
    {Left("exact", "ok", TRUE, FALSE), Left("exact", "ok", FALSE, FALSE),
     Left("blank", "capture_missing", TRUE, FALSE),
     Left("exact", "timeout", TRUE, TRUE)}]
\* A success without tool use, which a recomputation turns into a pass, or for a
\* web test into a failure; the other test may also time out with the wrong
\* artifact.
TwoOutcomes ==
    [k \in Keys |->
        {Left("exact", "ok", FALSE, FALSE)} \cup
            (IF k \in Web THEN {} ELSE {Left("wrong", "timeout", TRUE, TRUE)})]
=============================================================================
