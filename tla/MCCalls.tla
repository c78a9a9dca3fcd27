------------------------------- MODULE MCCalls -------------------------------
(***************************************************************************)
(* Instances of Calls for TLC.                                             *)
(***************************************************************************)
EXTENDS Calls, TLC
Symmetry == Permutations(Requests) \cup Permutations(Calls)
==============================================================================
