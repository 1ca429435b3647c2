--------------------------- MODULE MCOrchestrator ---------------------------
(* Constants of the TLC runs of Orchestrator.                              *)
EXTENDS OrchestratorRefinement, TLC

CONSTANTS i1, i2, i3, h1, h2

MCRank == [i \in Issues |-> IF i = i1 THEN 1 ELSE IF i = i2 THEN 2 ELSE 3]
NoStateLimit == <<>>
TodoLimit == [s \in {"todo"} |-> 1]
HandleSymmetry == Permutations({h1, h2})
=============================================================================
