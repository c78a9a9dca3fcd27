----------------------------- MODULE MCDocuments -----------------------------
(***************************************************************************)
(* Instances of Documents for TLC.                                         *)
(***************************************************************************)
EXTENDS Documents, TLC

\* One object, of the first version of one document.  Every version of either
\* document that is confirmed refers to it, its own or not.
OneObject == {<<CHOOSE d \in Documents : TRUE, 1>>}

Symmetry ==
  Permutations(Requests) \cup Permutations(Contents) \cup Permutations(ActaTypes)
==============================================================================
