---------------------------- MODULE MCReportApi ----------------------------
(* Small instances of ReportApi for TLC.                                    *)
EXTENDS ReportApi, ReportPoolRefinement, TLC

\* Requests (with their pages), workers and ids are interchangeable.
Symmetry == Permutations(Requests) \cup Permutations(Workers) \cup Permutations(Ids)
=============================================================================
