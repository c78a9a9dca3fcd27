----------------------------- MODULE MCApproval ------------------------------
(***************************************************************************)
(* Instances of Approval for TLC.                                          *)
(***************************************************************************)
EXTENDS Approval, TLC

\* Ids are interchangeable: nothing orders or chooses among them.
Symmetry == Permutations(Requests) \cup Permutations(Instances)
==============================================================================
