--------------------------- MODULE MCExperimentBatch ---------------------------
(***************************************************************************)
(* ExperimentBatch for TLC: batches of two policies, and of one ABBA block, *)
(* and the schedules of every small design with six players and two        *)
(* profiles, so that a complete control cycle has 1, 2, 6 or 12 cases.     *)
(***************************************************************************)
EXTENDS ExperimentBatch

Design(policies, order, n, cyclic) ==
    [policies |-> policies, order |-> order, n |-> n, seed |-> 7, seats |-> 6, cyclic |-> cyclic,
     layout |-> "legacy", layoutSeed |-> 0, layoutCount |-> 0,
     persona |-> "legacy", personaSeed |-> 0, profiles |-> 2]

MCBatchDesigns ==
    {Design(2, "sequential", 1, FALSE), Design(2, "abba", 2, TRUE)}

MCDesigns == MCBatchDesigns \cup
    [policies : 1..3, order : {"sequential", "abba"}, n : {2, 3, 6, 12, 24}, seed : {7},
     seats : {6}, cyclic : BOOLEAN,
     layout : {"legacy", "fixed", "counterbalanced"}, layoutSeed : {0}, layoutCount : {0, 2},
     persona : {"legacy", "fixed", "randomized", "counterbalanced"}, personaSeed : {0, 5},
     profiles : {2, 3}]

=============================================================================
