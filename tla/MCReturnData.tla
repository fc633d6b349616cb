---------------------------- MODULE MCReturnData ----------------------------
(* The instances of ReturnData that TLC checks.                            *)
EXTENDS ReturnData, TLC

\* Blocks and receivers differ in nothing but their names.
Symmetry == Permutations(Blocks) \cup Permutations(Receivers)
=============================================================================
