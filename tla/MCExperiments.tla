--------------------------- MODULE MCExperiments ---------------------------
(* A small instance of the experiment programs.                             *)
EXTENDS Experiments

MCTrials == [s \in {"AB-001", "AB-002"} |-> IF s = "AB-001" THEN 2 ELSE 1]

\* A section twice in one request, and sections that two requests share.
MCSections == {<<1, 1, 2>>, <<2, 3>>}
=============================================================================
