----------------------------- MODULE MCProjects ------------------------------
(***************************************************************************)
(* Instances of Projects for TLC.                                          *)
(***************************************************************************)
EXTENDS Projects, TLC

\* Ids are interchangeable: nothing orders or chooses among them.
Symmetry == Permutations(Requests)
==============================================================================
