----------------------------- MODULE MCReports -------------------------------
(***************************************************************************)
(* Instances of Progress and Reports, composed, for TLC.                   *)
(***************************************************************************)
EXTENDS Reports, TLC
Symmetry == Permutations(Requests)
==============================================================================
