----------------------------- MODULE MCDumpJob -----------------------------
(***************************************************************************)
(* Instances of DumpJob for TLC.                                           *)
(***************************************************************************)
EXTENDS DumpJob

CONSTANTS j1, j2, j3, r1, r2, p1, p2, s1

OneRun == [j \in Job |-> r1]
OnePart == [j \in Job |-> p1]
OneServer == [p \in Partition |-> s1]
RankByName == [p \in Partition |-> IF p = p1 THEN 1 ELSE 2]

\* j1 and j2 are the volumes of a full run, j3 the volume of a second one.
TwoRuns == [j \in Job |-> IF j = j3 THEN r2 ELSE r1]
TwoParts == [j \in Job |-> IF j = j2 THEN p2 ELSE p1]
=============================================================================
