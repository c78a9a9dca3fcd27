------------------------------ MODULE MCBudgets ------------------------------
(***************************************************************************)
(* Instances of Budgets for TLC.                                           *)
(***************************************************************************)
EXTENDS Budgets, TLC
Symmetry == Permutations(Requests) \cup Permutations(Executions) \cup Permutations(Budgets)
==============================================================================
