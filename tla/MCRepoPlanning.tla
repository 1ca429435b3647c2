--------------------------- MODULE MCRepoPlanning ---------------------------
(* Constants of the TLC runs of RepoPlanning: three repositories, of which *)
(* two have the same name with different owners.                           *)
EXTENDS RepoPlanning

LastPart == [r \in Repos |-> IF r = "ours/web" THEN "web" ELSE "api"]
=============================================================================
