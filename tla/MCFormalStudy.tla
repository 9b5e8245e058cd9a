--------------------------- MODULE MCFormalStudy ---------------------------
(***************************************************************************)
(* Two samples in each split, one with a positive label and one without;    *)
(* one of the manifests shares a source family between two splits.          *)
(***************************************************************************)
EXTENDS FormalStudy, TLC

Sample(id, group, family, positive) ==
    [id |-> id, candidate |-> id, group |-> group, family |-> family,
     split |-> group, positive |-> positive]

Clean ==
    {Sample("c1", "calibration", "f1", TRUE), Sample("c2", "calibration", "f1", FALSE),
     Sample("v1", "validation", "f2", TRUE), Sample("v2", "validation", "f2", FALSE),
     Sample("t1", "test", "f3", TRUE), Sample("t2", "test", "f3", FALSE)}

Leaky ==
    {IF s.id = "t1" THEN [s EXCEPT !.family = "f1"] ELSE s : s \in Clean}

MCPlans ==
    {[operator |-> "gte", minTpr |-> 100, maxFpr |-> 100, least |-> 1],
     [operator |-> "lte", minTpr |-> 100, maxFpr |-> 0, least |-> 1]}
MCSamplings == {Clean, Leaky}
MCSplit == [group \in Splits |-> group]
MCReadings == [score : {1, 2}, positive : BOOLEAN]

\* bound: a study starts with one score of the positive test sample, and either its
\* inputs are edited, with one command at work at a time, or a command is killed.
MCInit == Init /\ ws.test.pairs["t1"].score = 2
AtWork == {p \in Processes : proc[p] # Idle}
MCNext == Next /\ (edits' = 0 \/ (crashes' = 0 /\ Cardinality(AtWork') <= 1))
MCSpec == MCInit /\ [][MCNext]_vars

Symmetry == Permutations(Processes)
=============================================================================
