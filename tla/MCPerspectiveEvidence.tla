----------------------- MODULE MCPerspectiveEvidence ----------------------
(* The fact-grounded evidence over a small curated registry. *)
EXTENDS PerspectiveEvidence
INSTANCE CuratedFacts
============================================================================
