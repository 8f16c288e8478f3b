---------------------------- MODULE MCConfigFiles ----------------------------
(* Commands and fields are told apart by no definition.  users.yaml has a    *)
(* commented line for one user, whose entry an edit may bring back above or  *)
(* below that of the other; for both; or for one that was brought back, with *)
(* a list of values, above another or below another that has such a list.    *)
EXTENDS ConfigFiles, TLC

File(ls, commented, b, lists) ==
    [listed |-> ls, off |-> commented, spaced |-> b,
     access |-> [u \in Users |-> IF u \in lists THEN "list" ELSE "none"]]
WithComments ==
    {File({2}, {1}, FALSE, {}), File({1}, {2}, TRUE, {}), File({}, {1, 2}, TRUE, {}),
     File({1, 2}, {1}, FALSE, {1}), File({1, 2}, {2}, FALSE, {1, 2})}

Symmetry == Permutations(Commands) \cup Permutations(Fields)
=============================================================================
