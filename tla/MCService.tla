----------------------------- MODULE MCService -----------------------------
(* Small instances of Service for TLC.                                      *)
EXTENDS Service, TLC

\* Processes and commands are interchangeable.
Symmetry == Permutations(Pids) \cup Permutations(Operators)
=============================================================================
