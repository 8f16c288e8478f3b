--------------------------- MODULE MCReportPool ---------------------------
(* Small instances of ReportPool for TLC.                                   *)
EXTENDS ReportPoolRefinement, ReportPoolInv, TLC

\* Requests, workers and ids are interchangeable (safety runs only).
Symmetry == Permutations(Requests) \cup Permutations(Workers) \cup Permutations(Ids)
=============================================================================
