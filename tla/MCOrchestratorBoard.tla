------------------------ MODULE MCOrchestratorBoard ------------------------
(* Constants of the TLC run of OrchestratorBoard.                          *)
EXTENDS OrchestratorBoard

CONSTANTS i1, i2, h1, h2

MCRank == [i \in Issues |-> IF i = i1 THEN 1 ELSE 2]
NoStateLimit == <<>>
=============================================================================
